---- MODULE Spec2Model ----
(***************************************************************************)
(* Query generation of SurrealityV2: the clause helpers, the include-tree  *)
(* flattener, the value caster and the SELECT generators, as pure          *)
(* operators over JavaScript values, and a state machine that calls them   *)
(* on inputs drawn from bounded pools.                                     *)
(*                                                                         *)
(* JavaScript strings are TLA+ strings (\o, Len, SubSeq); every other      *)
(* JavaScript value is a record tagged by its typeof/shape in field t.     *)
(***************************************************************************)
EXTENDS Integers, Sequences, FiniteSets, TLC

VARIABLES fn, args, result

\* a Surreality instance (its two fields) and the calls in progress on it
VARIABLES thisSurreal, thisTable, calls

\* a Manager (its handle and configuration) and the calls in progress on it
VARIABLES managerSurreal, managerConfig, managerClients, managerCalls

functions == <<fn, args, result>>

instance == <<thisSurreal, thisTable, calls>>

manager == <<managerSurreal, managerConfig, managerClients, managerCalls>>

vars == <<fn, args, result, thisSurreal, thisTable, calls,
          managerSurreal, managerConfig, managerClients, managerCalls>>

(***************************************************************************)
(* Bounds of the input pools.                                              *)
(***************************************************************************)
MaxNodes == 3
MaxWhere == 2
MaxOrder == 2
MaxLimit == 2

\* the most items of an array, or properties of an object, handed to casting
MaxItems == 2

(***************************************************************************)
(* String primitives of the JavaScript runtime.                            *)
(***************************************************************************)
Ch(s, i) == SubSeq(s, i, i)

Upper == "ABCDEFGHIJKLMNOPQRSTUVWXYZ"

Lower == "abcdefghijklmnopqrstuvwxyz"

Digits == "0123456789"

InStr(c, set) == \E i \in 1..Len(set) : Ch(set, i) = c

IsDigit(c) == InStr(c, Digits)

\* \s of the regular expressions
IsSpace(c) == c \in {" ", "\t", "\n", "\r"}

ToLowerCh(c) ==
    IF InStr(c, Upper)
    THEN Ch(Lower, CHOOSE i \in 1..26 : Ch(Upper, i) = c)
    ELSE c

RECURSIVE toLowerCase(_)
toLowerCase(s) ==
    IF s = "" THEN "" ELSE ToLowerCh(Head(s)) \o toLowerCase(Tail(s))

ToUpperCh(c) ==
    IF InStr(c, Lower)
    THEN Ch(Upper, CHOOSE i \in 1..26 : Ch(Lower, i) = c)
    ELSE c

RECURSIVE toUpperCase(_)
toUpperCase(s) ==
    IF s = "" THEN "" ELSE ToUpperCh(Head(s)) \o toUpperCase(Tail(s))

startsWith(s, p) == Len(s) >= Len(p) /\ SubSeq(s, 1, Len(p)) = p

\* positions at which p occurs in s
Occurrences(s, p) ==
    {i \in 1..(Len(s) - Len(p) + 1) : SubSeq(s, i, i + Len(p) - 1) = p}

includes(s, p) == Occurrences(s, p) # {}

RECURSIVE trimStart(_)
trimStart(s) ==
    IF s # "" /\ IsSpace(Head(s)) THEN trimStart(Tail(s)) ELSE s

RECURSIVE trimEnd(_)
trimEnd(s) ==
    IF s # "" /\ IsSpace(Ch(s, Len(s)))
    THEN trimEnd(SubSeq(s, 1, Len(s) - 1))
    ELSE s

trim(s) == trimEnd(trimStart(s))

\* Array.prototype.join on a sequence of strings
RECURSIVE join(_, _)
join(strs, sep) ==
    IF Len(strs) = 0 THEN ""
    ELSE IF Len(strs) = 1 THEN strs[1]
    ELSE strs[1] \o sep \o join(Tail(strs), sep)

\* Array.prototype.filter(Boolean) on a sequence of strings
RECURSIVE filterBoolean(_)
filterBoolean(strs) ==
    IF Len(strs) = 0 THEN <<>>
    ELSE IF Head(strs) = "" THEN filterBoolean(Tail(strs))
    ELSE <<Head(strs)>> \o filterBoolean(Tail(strs))

\* value.replace(/'/g, "''")
RECURSIVE doubleQuotes(_)
doubleQuotes(s) ==
    IF s = "" THEN ""
    ELSE (IF Head(s) = "'" THEN "''" ELSE Head(s)) \o doubleQuotes(Tail(s))

\* /limit\s+\d+/i.test(s): "limit" in any case, one or more blanks, a digit
RECURSIVE BlanksThenDigit(_, _)
BlanksThenDigit(s, i) ==
    /\ i <= Len(s)
    /\ \/ IsDigit(Ch(s, i))
       \/ IsSpace(Ch(s, i)) /\ BlanksThenDigit(s, i + 1)

hasLimit(s) ==
    \E i \in 1..Len(s) :
        /\ i + 5 <= Len(s)
        /\ toLowerCase(SubSeq(s, i, i + 4)) = "limit"
        /\ IsSpace(Ch(s, i + 5))
        /\ BlanksThenDigit(s, i + 6)

(***************************************************************************)
(* JavaScript values.                                                      *)
(***************************************************************************)
JUndefined == [t |-> "undefined"]

JNull == [t |-> "null"]

JStr(s) == [t |-> "string", str |-> s]

JBool(b) == [t |-> "boolean", bool |-> b]

\* a finite number: sign, integer part and fraction digits ("" when whole)
JNum(n) == [t |-> "number", nan |-> FALSE, neg |-> n < 0,
            int |-> IF n < 0 THEN 0 - n ELSE n, frac |-> ""]

JDec(n, f) == [t |-> "number", nan |-> FALSE, neg |-> n < 0,
               int |-> IF n < 0 THEN 0 - n ELSE n, frac |-> f]

JNaN == [t |-> "number", nan |-> TRUE, neg |-> FALSE, int |-> 0, frac |-> ""]

JArr(items) == [t |-> "array", items |-> items]

\* a plain object: its own properties in insertion order
JObj(entries) == [t |-> "object", entries |-> entries]

Prop(k, v) == [key |-> k, value |-> v]

(***************************************************************************)
(* Property access, typeof, truthiness and String() of JavaScript values.  *)
(***************************************************************************)
isArray(v) == v.t = "array"

\* typeof v === "object" (null and arrays included)
isTypeofObject(v) == v.t \in {"object", "array", "null"}

\* the own properties Object.entries(v) lists: an array lists its indices
RECURSIVE IndexProps(_, _)
IndexProps(items, i) ==
    IF i > Len(items) THEN <<>>
    ELSE <<Prop(ToString(i - 1), items[i])>> \o IndexProps(items, i + 1)

entriesOf(v) ==
    IF v.t = "object" THEN v.entries
    ELSE IF v.t = "array" THEN IndexProps(v.items, 1)
    ELSE <<>>

\* "k" in v, for v with typeof "object" and not null
hasKey(v, k) ==
    v.t = "object" /\ \E i \in 1..Len(v.entries) : v.entries[i].key = k

\* v.k for a value that is neither null nor undefined
get(v, k) ==
    IF hasKey(v, k)
    THEN v.entries[CHOOSE i \in 1..Len(v.entries) : v.entries[i].key = k].value
    ELSE JUndefined

truthy(v) ==
    CASE v.t = "undefined" -> FALSE
      [] v.t = "null" -> FALSE
      [] v.t = "string" -> v.str # ""
      [] v.t = "boolean" -> v.bool
      [] v.t = "number" -> ~v.nan /\ ~(v.int = 0 /\ v.frac = "")
      [] OTHER -> TRUE

numberToString(n) ==
    IF n.nan THEN "NaN"
    ELSE (IF n.neg /\ ~(n.int = 0 /\ n.frac = "") THEN "-" ELSE "")
         \o ToString(n.int)
         \o (IF n.frac = "" THEN "" ELSE "." \o n.frac)

\* String(v), as a template literal interpolates v
RECURSIVE toStr(_), joinItems(_)
toStr(v) ==
    CASE v.t = "undefined" -> "undefined"
      [] v.t = "null" -> "null"
      [] v.t = "string" -> v.str
      [] v.t = "boolean" -> IF v.bool THEN "true" ELSE "false"
      [] v.t = "number" -> numberToString(v)
      [] v.t = "array" -> joinItems(v.items)
      [] OTHER -> "[object Object]"

joinItems(items) ==
    IF Len(items) = 0 THEN ""
    ELSE (IF items[1].t \in {"null", "undefined"} THEN "" ELSE toStr(items[1]))
         \o (IF Len(items) = 1 THEN "" ELSE "," \o joinItems(Tail(items)))

(***************************************************************************)
(* Number parsing: parseFloat, Number and Math.floor.                      *)
(***************************************************************************)
RECURSIVE digitRun(_)
\* the longest prefix of s made of decimal digits
digitRun(s) ==
    IF s # "" /\ IsDigit(Head(s)) THEN Head(s) \o digitRun(Tail(s)) ELSE ""

digitValue(c) == (CHOOSE i \in 1..10 : Ch(Digits, i) = c) - 1

RECURSIVE digitsToNat(_)
digitsToNat(s) ==
    IF s = "" THEN 0
    ELSE 10 * digitsToNat(SubSeq(s, 1, Len(s) - 1)) + digitValue(Ch(s, Len(s)))

RECURSIVE stripZeros(_)
stripZeros(s) ==
    IF s # "" /\ Ch(s, Len(s)) = "0"
    THEN stripZeros(SubSeq(s, 1, Len(s) - 1))
    ELSE s

\* the decimal literal at the start of s (no exponent): [numeric, rest]
scanNumber(s0) ==
    LET neg == s0 # "" /\ Head(s0) = "-"
        s1 == IF s0 # "" /\ Head(s0) \in {"-", "+"} THEN Tail(s0) ELSE s0
        ip == digitRun(s1)
        s2 == SubSeq(s1, Len(ip) + 1, Len(s1))
        hasDot == s2 # "" /\ Head(s2) = "."
        fp == IF hasDot THEN digitRun(Tail(s2)) ELSE ""
        s3 == IF hasDot /\ (ip # "" \/ fp # "")
              THEN SubSeq(s2, Len(fp) + 2, Len(s2)) ELSE s2
    IN  IF ip = "" /\ fp = ""
        THEN [num |-> JNaN, rest |-> s0]
        ELSE [num |-> [t |-> "number", nan |-> FALSE, neg |-> neg,
                       int |-> digitsToNat(ip), frac |-> stripZeros(fp)],
              rest |-> s3]

\* parseFloat(v): the numeric prefix of String(v), blanks skipped
parseFloat(v) == scanNumber(trimStart(toStr(v))).num

\* Number(v)
toNumber(v) ==
    CASE v.t = "number" -> v
      [] v.t = "boolean" -> JNum(IF v.bool THEN 1 ELSE 0)
      [] v.t = "null" -> JNum(0)
      [] v.t = "undefined" -> JNaN
      [] v.t = "object" -> JNaN
      [] OTHER ->
            LET s == trim(toStr(v))
                r == scanNumber(s)
            IN  IF s = "" THEN JNum(0)
                ELSE IF r.rest = "" THEN r.num ELSE JNaN

\* Math.floor of a number that is not NaN
floor(n) ==
    IF n.frac = "" THEN n
    ELSE IF n.neg THEN JNum(0 - (n.int + 1))
    ELSE JNum(n.int)

\* x || 0 for a number x
orZero(n) == IF truthy(n) THEN n ELSE JNum(0)

(***************************************************************************)
(* The value caster.                                                       *)
(***************************************************************************)
TYPES(key) ==
    CASE key = "ARRAY" -> "<array>"
      [] key = "BOOLEAN" -> "<bool>"
      [] key = "BYTES" -> "<bytes>"
      [] key = "DATETIME" -> "<datetime>"
      [] key = "DECIMAL" -> "<decimal>"
      [] key = "DURATION" -> "<duration>"
      [] key = "FLOAT" -> "<float>"
      [] key = "INT" -> "<int>"
      [] key = "NUMBER" -> "<number>"
      [] key = "RECORD" -> "<record>"
      [] key = "STRING" -> "<string>"
      [] key = "UUID" -> "<uuid>"
      [] OTHER -> ""

\* variant: any string with a leading "$" taken for a parameter
isParameter_AnyDollar(str) == startsWith(str, "$")

isParameter(str) ==
    startsWith(str, "$") /\ Cardinality(Occurrences(str, "$")) = 1

\* /^\d{4}-\d{2}-\d{2}T\d{2}:\d{2}:\d{2}.\d{3}Z$/ ("." is any character)
isDateTime(str) ==
    /\ Len(str) = 24
    /\ \A i \in 1..24 :
          CASE i \in {5, 8} -> Ch(str, i) = "-"
            [] i = 11 -> Ch(str, i) = "T"
            [] i \in {14, 17} -> Ch(str, i) = ":"
            [] i = 20 -> Ch(str, i) \notin {"\n", "\r"}
            [] i = 24 -> Ch(str, i) = "Z"
            [] OTHER -> IsDigit(Ch(str, i))

IsIdentCh(c) == InStr(c, Upper) \/ InStr(c, Lower) \/ IsDigit(c) \/ c \in {"_", "-"}

\* /^[a-zA-Z0-9_-]+:[a-zA-Z0-9_-]+$/
isRecord(str) ==
    \E i \in 2..(Len(str) - 1) :
        /\ Ch(str, i) = ":"
        /\ \A j \in (1..Len(str)) \ {i} : IsIdentCh(Ch(str, j))

\* variant: a string compared with "" without trimming it
convertToBoolean_NoTrim(data) ==
    IF \/ data = JNum(0) \/ data = JStr("0")
       \/ data = JBool(FALSE) \/ data = JStr("false")
    THEN FALSE
    ELSE IF \/ data = JNum(1) \/ data = JStr("1")
            \/ data = JBool(TRUE) \/ data = JStr("true")
    THEN TRUE
    ELSE IF data.t = "string" THEN data.str # ""
    ELSE IF isArray(data) THEN Len(data.items) > 0
    ELSE IF data.t = "object" THEN TRUE
    ELSE truthy(data)

convertToBoolean(data) ==
    IF \/ data = JNum(0) \/ data = JStr("0")
       \/ data = JBool(FALSE) \/ data = JStr("false")
    THEN FALSE
    ELSE IF \/ data = JNum(1) \/ data = JStr("1")
            \/ data = JBool(TRUE) \/ data = JStr("true")
    THEN TRUE
    ELSE IF data.t = "string" THEN trim(data.str) # ""
    ELSE IF isArray(data) THEN Len(data.items) > 0
    ELSE IF data.t = "object" THEN TRUE
    ELSE truthy(data)

\* variant: the floor taken without the test for NaN
convertToInt_NoGuard(data) ==
    LET num == IF data.t = "string" THEN parseFloat(data) ELSE toNumber(data)
    IN  IF num.nan THEN num ELSE floor(num)

convertToInt(data) ==
    LET num == IF data.t = "string" THEN parseFloat(data) ELSE toNumber(data)
    IN  IF num.nan THEN JNum(0) ELSE floor(num)

\* variant: the read of value.as taken to fail on null only
handleObjectThrows_NullOnly(obj) ==
    \/ obj.t = "null"
    \/ \E i \in 1..Len(entriesOf(obj)) : entriesOf(obj)[i].value.t = "null"

\* handleObject throws: Object.entries(null), or value.as of a null or
\* undefined property value
handleObjectThrows(obj) ==
    \/ obj.t = "null"
    \/ \E i \in 1..Len(entriesOf(obj)) :
          entriesOf(obj)[i].value.t \in {"null", "undefined"}

RECURSIVE casting(_), handleArray(_, _), handleObject(_), castItems(_, _), castProps(_)

castItems(items, dataAs) ==
    IF Len(items) = 0 THEN <<>>
    ELSE <<casting(IF truthy(dataAs)
                   THEN JObj(<<Prop("data", items[1]), Prop("as", dataAs)>>)
                   ELSE items[1])>>
         \o castItems(Tail(items), dataAs)

handleArray(data, dataAs) ==
    "[" \o join(castItems(data.items, dataAs), ", ") \o "]"

castProps(props) ==
    IF Len(props) = 0 THEN <<>>
    ELSE LET value == props[1].value
         IN  <<props[1].key \o ": " \o
               (IF truthy(get(value, "as"))
                THEN casting(JObj(<<Prop("data", get(value, "data")),
                                    Prop("as", get(value, "as"))>>))
                ELSE casting(value))>>
             \o castProps(Tail(props))

\* the string handleObject returns when it does not throw
handleObject(obj) == "{" \o join(castProps(entriesOf(obj)), ", ") \o "}"

casting(opt) ==
    IF \/ opt.t \in {"null", "undefined"}
       \/ opt = JStr("") \/ opt = JStr("NULL")
       \/ (hasKey(opt, "data") /\ get(opt, "data") = JNull
           /\ get(opt, "as") = JStr("NONE"))
    THEN "NONE"
    ELSE
    LET tagged == hasKey(opt, "as")
        asName == IF tagged THEN get(opt, "as") ELSE JUndefined
        dataInput == IF tagged THEN get(opt, "data") ELSE opt
        dataAsInput == IF tagged THEN get(opt, "dataAs") ELSE JUndefined
    IN
    IF dataInput = JUndefined THEN "NONE"
    ELSE IF truthy(asName) THEN
        \* asName.toLowerCase() throws unless asName is a string
        IF asName.t # "string" THEN "NONE"
        ELSE
        LET normalizedAs == toLowerCase(asName.str)
            typeKey == toUpperCase(normalizedAs)
        IN  CASE normalizedAs = "array" ->
                    IF ~isArray(dataInput) THEN "NONE"
                    ELSE handleArray(dataInput, dataAsInput)
              [] normalizedAs = "object" ->
                    IF ~isTypeofObject(dataInput) \/ dataInput = JNull
                    THEN "NONE"
                    ELSE IF handleObjectThrows(dataInput) THEN "NONE"
                    ELSE handleObject(dataInput)
              [] normalizedAs = "bool" ->
                    TYPES("BOOLEAN") \o
                    (IF convertToBoolean(dataInput) THEN "true" ELSE "false")
              [] OTHER ->
                    IF TYPES(typeKey) # ""
                    THEN TYPES(typeKey) \o toStr(
                           CASE normalizedAs = "int" -> convertToInt(dataInput)
                             [] normalizedAs = "float" ->
                                    orZero(parseFloat(dataInput))
                             [] normalizedAs = "number" ->
                                    orZero(toNumber(dataInput))
                             [] OTHER -> dataInput)
                    ELSE "NONE"
    ELSE IF isArray(dataInput) THEN handleArray(dataInput, dataAsInput)
    ELSE CASE dataInput.t = "boolean" ->
                TYPES("BOOLEAN") \o toStr(dataInput)
           [] dataInput.t = "string" ->
                IF isParameter(dataInput.str) THEN dataInput.str
                ELSE IF isDateTime(dataInput.str)
                THEN TYPES("DATETIME") \o dataInput.str
                ELSE IF isRecord(dataInput.str)
                THEN TYPES("RECORD") \o dataInput.str
                ELSE TYPES("STRING") \o dataInput.str
           [] dataInput.t = "number" ->
                IF ~dataInput.nan /\ dataInput.frac = ""
                THEN TYPES("INT") \o toStr(dataInput)
                ELSE TYPES("FLOAT") \o toStr(dataInput)
           [] isTypeofObject(dataInput) ->
                IF handleObjectThrows(dataInput) THEN "NONE"
                ELSE handleObject(dataInput)
           [] OTHER -> "NONE"

(***************************************************************************)
(* Include tree: a node is [model, as, fields, include]; as is undefined   *)
(* or a string, fields undefined or an array of strings, include undefined *)
(* or an array of nodes.                                                   *)
(***************************************************************************)
Node(model, as, fields, include) ==
    [model |-> model, as |-> as, fields |-> fields, include |-> include]

\* inc.as || inc.model
nameOf(inc) == IF truthy(inc.as) THEN inc.as.str ELSE inc.model

\* parentPath ? `${parentPath}.${name}` : name
pathOf(inc, parentPath) ==
    IF parentPath # "" THEN parentPath \o "." \o nameOf(inc) ELSE nameOf(inc)

\* variant: nested includes flattened under the parent's path, not the node's
RECURSIVE flattenIncludes_ParentPath(_, _)
flattenIncludes_ParentPath(include, parentPath) ==
    IF Len(include) = 0 THEN <<>>
    ELSE LET inc == include[1]
             path == pathOf(inc, parentPath)
             paths == IF truthy(inc.include) /\ isArray(inc.include)
                      THEN <<path>> \o
                           flattenIncludes_ParentPath(inc.include.items, parentPath)
                      ELSE <<path>>
         IN  paths \o flattenIncludes_ParentPath(Tail(include), parentPath)

RECURSIVE flattenIncludes(_, _)
flattenIncludes(include, parentPath) ==
    IF Len(include) = 0 THEN <<>>
    ELSE LET inc == include[1]
             path == pathOf(inc, parentPath)
             paths == IF truthy(inc.include) /\ isArray(inc.include)
                      THEN <<path>> \o flattenIncludes(inc.include.items, path)
                      ELSE <<path>>
         IN  paths \o flattenIncludes(Tail(include), parentPath)

\* inc.fields.map(f => `${path}.${f}`)
RECURSIVE prefixFields(_, _)
prefixFields(path, fs) ==
    IF Len(fs) = 0 THEN <<>>
    ELSE <<path \o "." \o fs[1].str>> \o prefixFields(path, Tail(fs))

\* variant: nested includes walked only under a node that lists fields
RECURSIVE collectIncludeFields_SkipBare(_, _)
collectIncludeFields_SkipBare(include, parentPath) ==
    IF Len(include) = 0 THEN <<>>
    ELSE LET inc == include[1]
             path == pathOf(inc, parentPath)
             own == IF truthy(inc.fields) /\ Len(inc.fields.items) > 0
                    THEN prefixFields(path, inc.fields.items)
                    ELSE <<>>
             fields == IF Len(own) > 0 /\ truthy(inc.include) /\ isArray(inc.include)
                       THEN own \o collectIncludeFields_SkipBare(inc.include.items, path)
                       ELSE own
         IN  fields \o collectIncludeFields_SkipBare(Tail(include), parentPath)

RECURSIVE collectIncludeFields(_, _)
collectIncludeFields(include, parentPath) ==
    IF Len(include) = 0 THEN <<>>
    ELSE LET inc == include[1]
             path == pathOf(inc, parentPath)
             own == IF truthy(inc.fields) /\ Len(inc.fields.items) > 0
                    THEN prefixFields(path, inc.fields.items)
                    ELSE <<>>
             fields == IF truthy(inc.include) /\ isArray(inc.include)
                       THEN own \o collectIncludeFields(inc.include.items, path)
                       ELSE own
         IN  fields \o collectIncludeFields(Tail(include), parentPath)

(***************************************************************************)
(* Clause helpers.                                                         *)
(***************************************************************************)
\* one "<key> = <literal>" condition of the WHERE clause
condition(p) ==
    IF p.value.t = "string"
    THEN p.key \o " = " \o casting(JStr(doubleQuotes(p.value.str)))
    ELSE p.key \o " = " \o casting(p.value)

RECURSIVE conditionsOf(_)
conditionsOf(props) ==
    IF Len(props) = 0 THEN <<>>
    ELSE <<condition(props[1])>> \o conditionsOf(Tail(props))

generateWhereClause(where) ==
    IF ~truthy(where) THEN ""
    ELSE LET conditions == conditionsOf(entriesOf(where))
         IN  IF Len(conditions) > 0
             THEN "WHERE " \o join(conditions, " AND ")
             ELSE ""

\* variant: the descending marker is not stripped
orderString_KeepMarker(o) ==
    IF startsWith(o, "-") THEN o \o " DESC"
    ELSE o \o " ASC"

orderString(o) ==
    IF startsWith(o, "-") THEN SubSeq(o, 2, Len(o)) \o " DESC"
    ELSE o \o " ASC"

RECURSIVE orderStringsOf(_)
orderStringsOf(orders) ==
    IF Len(orders) = 0 THEN <<>>
    ELSE <<orderString(orders[1].str)>> \o orderStringsOf(Tail(orders))

generateOrderByClause(order) ==
    IF ~truthy(order) THEN ""
    ELSE LET orders == IF isArray(order) THEN order.items ELSE <<order>>
             orderStrings == orderStringsOf(orders)
         IN  IF Len(orderStrings) > 0
             THEN "ORDER BY " \o join(orderStrings, ", ")
             ELSE ""

\* variant: limit and offset tested for truthiness, so 0 counts as absent
generateLimitOffsetClause_Truthy(limit, offset) ==
    LET c1 == IF truthy(offset)
              THEN "START " \o toStr(offset) \o " " ELSE ""
        c2 == IF truthy(limit)
              THEN c1 \o "LIMIT " \o toStr(limit) ELSE c1
    IN  trim(c2)

generateLimitOffsetClause(limit, offset) ==
    LET c1 == IF offset.t = "number"
              THEN "START " \o toStr(offset) \o " " ELSE ""
        c2 == IF limit.t = "number"
              THEN c1 \o "LIMIT " \o toStr(limit) ELSE c1
    IN  trim(c2)

generateFetchClause(include) ==
    IF ~truthy(include) \/ Len(include.items) = 0 THEN ""
    ELSE LET fetchPaths == flattenIncludes(include.items, "")
         IN  IF Len(fetchPaths) > 0
             THEN "FETCH " \o join(fetchPaths, ", ")
             ELSE ""

(***************************************************************************)
(* SELECT generators.  options is [fields, where, order, limit, offset,    *)
(* include, surrealql], an absent option being undefined.                  *)
(***************************************************************************)
\* elements of an array of strings
RECURSIVE strsOf(_)
strsOf(items) ==
    IF Len(items) = 0 THEN <<>> ELSE <<items[1].str>> \o strsOf(Tail(items))

\* variant: include field paths used only when no explicit fields are given
selectList_FieldsOrInclude(options) ==
    LET main == IF truthy(options.fields) /\ Len(options.fields.items) > 0
                THEN strsOf(options.fields.items) ELSE <<>>
        selectFields == IF Len(main) = 0 /\ truthy(options.include)
                        THEN collectIncludeFields(options.include.items, "")
                        ELSE main
    IN  IF Len(selectFields) > 0 THEN join(selectFields, ", ") ELSE "*"

\* the SELECT list both generators build
selectList(options) ==
    LET main == IF truthy(options.fields) /\ Len(options.fields.items) > 0
                THEN strsOf(options.fields.items) ELSE <<>>
        selectFields == IF truthy(options.include)
                        THEN main \o collectIncludeFields(options.include.items, "")
                        ELSE main
    IN  IF Len(selectFields) > 0 THEN join(selectFields, ", ") ELSE "*"

\* customClause || clauses.filter(Boolean).join(' ')
clauseText(customClause, clauses) ==
    IF customClause # "" THEN customClause
    ELSE join(filterBoolean(clauses), " ")

\* variant: FETCH placed before the pagination clause
generateFindAllQuery_FetchFirst(table, options) ==
    LET fields == selectList(options)
        fetchClause == generateFetchClause(options.include)
        whereClause == IF ~truthy(options.surrealql)
                       THEN generateWhereClause(options.where) ELSE ""
        orderClause == IF ~truthy(options.surrealql)
                       THEN generateOrderByClause(options.order) ELSE ""
        limitClause == IF ~truthy(options.surrealql)
                       THEN generateLimitOffsetClause(options.limit, options.offset)
                       ELSE ""
        customClause == IF truthy(options.surrealql)
                        THEN trim(options.surrealql.str) ELSE ""
    IN  "SELECT " \o fields \o " FROM " \o table \o " " \o
        clauseText(customClause,
                   <<whereClause, orderClause, fetchClause, limitClause>>) \o
        ";"

generateFindAllQuery(table, options) ==
    LET fields == selectList(options)
        fetchClause == generateFetchClause(options.include)
        whereClause == IF ~truthy(options.surrealql)
                       THEN generateWhereClause(options.where) ELSE ""
        orderClause == IF ~truthy(options.surrealql)
                       THEN generateOrderByClause(options.order) ELSE ""
        limitClause == IF ~truthy(options.surrealql)
                       THEN generateLimitOffsetClause(options.limit, options.offset)
                       ELSE ""
        customClause == IF truthy(options.surrealql)
                        THEN trim(options.surrealql.str) ELSE ""
    IN  "SELECT " \o fields \o " FROM " \o table \o " " \o
        clauseText(customClause,
                   <<whereClause, orderClause, limitClause, fetchClause>>) \o
        ";"

\* variant: LIMIT 1 left out when a WHERE clause is generated
generateFindOneQuery_NoLimit(table, options) ==
    LET fields == selectList(options)
        fetchClause == generateFetchClause(options.include)
        whereClause == IF ~truthy(options.surrealql)
                       THEN generateWhereClause(options.where) ELSE ""
        limitClause == IF whereClause # "" THEN ""
                       ELSE IF ~truthy(options.surrealql) THEN "LIMIT 1"
                       ELSE IF ~hasLimit(options.surrealql.str) THEN "LIMIT 1"
                       ELSE ""
        customClause == IF truthy(options.surrealql)
                        THEN trim(options.surrealql.str) ELSE ""
    IN  "SELECT " \o fields \o " FROM " \o table \o " " \o
        clauseText(customClause, <<whereClause, limitClause, fetchClause>>) \o
        ";"

generateFindOneQuery(table, options) ==
    LET fields == selectList(options)
        fetchClause == generateFetchClause(options.include)
        whereClause == IF ~truthy(options.surrealql)
                       THEN generateWhereClause(options.where) ELSE ""
        limitClause == IF ~truthy(options.surrealql) THEN "LIMIT 1"
                       ELSE IF ~hasLimit(options.surrealql.str) THEN "LIMIT 1"
                       ELSE ""
        customClause == IF truthy(options.surrealql)
                        THEN trim(options.surrealql.str) ELSE ""
    IN  "SELECT " \o fields \o " FROM " \o table \o " " \o
        clauseText(customClause, <<whereClause, limitClause, fetchClause>>) \o
        ";"

(***************************************************************************)
(* CREATE, UPDATE and DELETE generators.  options is [id, data, content,   *)
(* where, return, surrealql], an absent option being undefined.            *)
(***************************************************************************)
\* a character of s as JSON.stringify writes it inside a string
RECURSIVE jsonEscape(_)
jsonEscape(s) ==
    IF s = "" THEN ""
    ELSE (IF Head(s) \in {"\"", "\\"} THEN "\\" \o Head(s) ELSE Head(s))
         \o jsonEscape(Tail(s))

\* `${JSON.stringify(v)}`
RECURSIVE jsonStringify(_), jsonItems(_), jsonMembers(_)
jsonStringify(v) ==
    CASE v.t = "undefined" -> "undefined"
      [] v.t = "null" -> "null"
      [] v.t = "string" -> "\"" \o jsonEscape(v.str) \o "\""
      [] v.t = "boolean" -> toStr(v)
      [] v.t = "number" -> IF v.nan THEN "null" ELSE toStr(v)
      [] v.t = "array" -> "[" \o join(jsonItems(v.items), ",") \o "]"
      [] OTHER -> "{" \o join(jsonMembers(v.entries), ",") \o "}"

jsonItems(items) ==
    IF Len(items) = 0 THEN <<>>
    ELSE <<IF items[1] = JUndefined THEN "null" ELSE jsonStringify(items[1])>>
         \o jsonItems(Tail(items))

jsonMembers(props) ==
    IF Len(props) = 0 THEN <<>>
    ELSE (IF props[1].value = JUndefined THEN <<>>
          ELSE <<"\"" \o jsonEscape(props[1].key) \o "\":"
                 \o jsonStringify(props[1].value)>>)
         \o jsonMembers(Tail(props))

\* Array.isArray(options.data) ? options.data[0] : options.data
firstRecord(data) == IF isArray(data) THEN data.items[1] ELSE data

\* `"${key}": ${casting(options.data[key])}` for each key of options.data
castedData(data) ==
    [i \in 1..Len(entriesOf(data)) |->
        "\"" \o entriesOf(data)[i].key \o "\": "
        \o casting(entriesOf(data)[i].value)]

\* `${k} = ${casting(v)}` for each entry of the first record
setClausesCast(data) ==
    [i \in 1..Len(entriesOf(data)) |->
        entriesOf(data)[i].key \o " = " \o casting(entriesOf(data)[i].value)]

\* `${k} = ${typeof v === "string" ? `'${v.replace(/'/g, "''")}'`
\*                                  : JSON.stringify(v)}`
setClausesQuoted(data) ==
    [i \in 1..Len(entriesOf(data)) |->
        LET v == entriesOf(data)[i].value
        IN  entriesOf(data)[i].key \o " = " \o
            (IF v.t = "string" THEN "'" \o doubleQuotes(v.str) \o "'"
             ELSE jsonStringify(v))]

generateCreateQuery(table, options) ==
    IF truthy(options.surrealql) THEN trim(options.surrealql.str)
    ELSE
    LET target == IF truthy(options.id)
                  THEN table \o ":" \o toStr(options.id) ELSE table
        query == "CREATE " \o target \o " "
    IN  (IF options.content # JBool(FALSE)
         THEN query \o "CONTENT {" \o join(castedData(options.data), ", ") \o "};"
         ELSE query \o "SET "
              \o join(setClausesCast(firstRecord(options.data)), ", "))
        \o " RETURN AFTER;"

\* variant: the WHERE clause emitted whether or not an id is given
generateUpdateQuery_WhereWithId(table, options) ==
    IF truthy(options.surrealql) THEN trim(options.surrealql.str)
    ELSE
    LET target == IF truthy(options.id) THEN toStr(options.id) ELSE table
        query == "UPDATE " \o target \o " "
        body == IF options.content # JBool(FALSE)
                THEN query \o "CONTENT {"
                     \o join(castedData(options.data), ", ") \o "}"
                ELSE query \o "SET "
                     \o join(setClausesQuoted(firstRecord(options.data)), ", ")
        whereClause == IF truthy(options.where)
                       THEN generateWhereClause(options.where) ELSE ""
    IN  body
        \o (IF whereClause # "" THEN " " \o whereClause ELSE "")
        \o (IF truthy(options.return)
            THEN " RETURN " \o toStr(options.return) \o ";"
            ELSE " RETURN AFTER;")

generateUpdateQuery(table, options) ==
    IF truthy(options.surrealql) THEN trim(options.surrealql.str)
    ELSE
    LET target == IF truthy(options.id) THEN toStr(options.id) ELSE table
        query == "UPDATE " \o target \o " "
        body == IF options.content # JBool(FALSE)
                THEN query \o "CONTENT {"
                     \o join(castedData(options.data), ", ") \o "}"
                ELSE query \o "SET "
                     \o join(setClausesQuoted(firstRecord(options.data)), ", ")
        whereClause == IF ~truthy(options.id) /\ truthy(options.where)
                       THEN generateWhereClause(options.where) ELSE ""
    IN  body
        \o (IF whereClause # "" THEN " " \o whereClause ELSE "")
        \o (IF truthy(options.return)
            THEN " RETURN " \o toStr(options.return) \o ";"
            ELSE " RETURN AFTER;")

\* variant: the raw override returned as given, blanks included
generateDeleteQuery_Untrimmed(table, options) ==
    IF truthy(options.surrealql) THEN options.surrealql.str
    ELSE
    LET target == IF truthy(options.id)
                  THEN table \o ":" \o toStr(options.id) ELSE table
        query == "DELETE " \o target
        whereClause == IF ~truthy(options.id) /\ truthy(options.where)
                       THEN generateWhereClause(options.where) ELSE ""
    IN  query \o (IF whereClause # "" THEN " " \o whereClause ELSE "") \o ";"

generateDeleteQuery(table, options) ==
    IF truthy(options.surrealql) THEN trim(options.surrealql.str)
    ELSE
    LET target == IF truthy(options.id)
                  THEN table \o ":" \o toStr(options.id) ELSE table
        query == "DELETE " \o target
        whereClause == IF ~truthy(options.id) /\ truthy(options.where)
                       THEN generateWhereClause(options.where) ELSE ""
    IN  query \o (IF whereClause # "" THEN " " \o whereClause ELSE "") \o ";"

(***************************************************************************)
(* Table definition: the timestamp fields of a table.  timestamps is       *)
(* undefined, a boolean or an object of flags.                             *)
(***************************************************************************)
createdAtField(table) ==
    "DEFINE FIELD timestamps.createdAt ON TABLE " \o table
    \o " TYPE datetime VALUE time::now() READONLY;"

updatedAtField(table) ==
    "DEFINE FIELD timestamps.updatedAt ON TABLE " \o table
    \o " TYPE datetime VALUE time::now();"

deletedAtField(table) ==
    "DEFINE FIELD timestamps.deletedAt ON TABLE " \o table
    \o " TYPE option<datetime>;"

\* additionalFields throws: timestamps.createdAt of null
additionalFieldsThrows(timestamps) == timestamps = JNull

\* the list additionalFields returns when it does not throw
additionalFields(table, timestamps) ==
    IF timestamps = JUndefined \/ timestamps = JBool(TRUE)
    THEN <<createdAtField(table), updatedAtField(table), deletedAtField(table)>>
    ELSE IF isTypeofObject(timestamps)
    THEN (IF get(timestamps, "createdAt") = JBool(TRUE)
          THEN <<createdAtField(table)>> ELSE <<>>)
         \o (IF get(timestamps, "updatedAt") = JBool(TRUE)
             THEN <<updatedAtField(table)>> ELSE <<>>)
         \o (IF get(timestamps, "updatedAt") = JBool(TRUE)
             THEN <<deletedAtField(table)>> ELSE <<>>)
    ELSE <<>>

(***************************************************************************)
(* Static type projection.  A type is the set of the members of a union    *)
(* (never is the empty set); a member is a primitive, an object type with  *)
(* its attributes in order, or an array type.  An include type is the set  *)
(* of the include tuples of a union, each a list of include nodes.         *)
(***************************************************************************)
PrimT(name) == [k |-> "primitive", name |-> name]

ObjT(attrs) == [k |-> "object", attrs |-> attrs]

ArrT(elem) == [k |-> "array", elem |-> elem]

Attr(name, type) == [name |-> name, type |-> type]

\* T extends string | number | boolean | symbol | bigint | null | undefined
IsPrimitive(m) == m.k = "primitive"

NonNullable(T) == {m \in T : m \notin {PrimT("null"), PrimT("undefined")}}

\* T extends (infer U)[], T not distributed: every member is an array
ExtendsArray(T) == \A m \in T : m.k = "array"

\* the U inferred from T extends (infer U)[]
InferElem(T) == UNION {m.elem : m \in T}

ExtractObjectType(T) == {m \in T : ~IsPrimitive(m)}

ExtractArrayObjectType(T) ==
    UNION {ExtractObjectType(m.elem) : m \in {a \in T : a.k = "array"}}

\* the K of one object type for which RelationKeys<T> keeps K
RelationKeys(obj) ==
    { obj.attrs[i].name : i \in
        { j \in 1..Len(obj.attrs) :
            LET nn == NonNullable(obj.attrs[j].type)
            IN  IF ExtendsArray(nn) THEN ExtractArrayObjectType(nn) # {}
                ELSE ExtractObjectType(nn) # {} } }

\* distributed over T and, inside an array member, over its element type
ResolveRelationType(T) ==
    UNION { IF m.k = "array"
            THEN UNION { IF IsPrimitive(u) THEN {m} ELSE {ArrT({u})} : u \in m.elem }
            ELSE IF IsPrimitive(m) THEN {} ELSE {m} : m \in T }

\* distributed over T; Extract<U, primitives> extends never is not
ResolvePrimitiveType(T) ==
    UNION { IF m.k = "array"
            THEN (IF {u \in m.elem : IsPrimitive(u)} = {} THEN {m}
                  ELSE {ArrT({u \in m.elem : IsPrimitive(u)})})
            ELSE IF IsPrimitive(m) THEN {m} ELSE {} : m \in T }

\* the M of every node of every tuple
ExtractIncludedModels(TInclude) ==
    UNION {{tuple[i].model : i \in 1..Len(tuple)} : tuple \in TInclude}

\* the nested include of the nodes for TModel that carry one
GetNestedInclude(TInclude, TModel) ==
    UNION { { tuple[i].include.items :
                i \in { j \in 1..Len(tuple) :
                          /\ tuple[j].model = TModel
                          /\ tuple[j].include.t = "array" } } :
            tuple \in TInclude }

\* the mapped type, distributed over the members of T; an array member is
\* mapped element by element and a primitive is left as it is
RECURSIVE TransformWithInclude(_, _)
TransformWithInclude(T, TInclude) ==
    { CASE m.k = "primitive" -> m
        [] m.k = "array" -> ArrT(TransformWithInclude(m.elem, TInclude))
        [] OTHER ->
            ObjT([i \in 1..Len(m.attrs) |->
                LET K == m.attrs[i].name
                    TK == m.attrs[i].type
                    nested == GetNestedInclude(TInclude, K)
                IN  Attr(K,
                      IF K \in ExtractIncludedModels(TInclude)
                      THEN IF nested = {} THEN ResolveRelationType(TK)
                           ELSE IF ExtendsArray(TK)
                           THEN {ArrT(TransformWithInclude(
                                        ResolveRelationType(InferElem(TK)), nested))}
                           ELSE TransformWithInclude(ResolveRelationType(TK), nested)
                      ELSE IF K \in RelationKeys(m) THEN ResolvePrimitiveType(TK)
                      ELSE TK)]) :
      m \in T }

\* TOptions extends { include: infer TInclude }
WithInclude(T, TOptions) ==
    IF TOptions.include.t = "array"
    THEN TransformWithInclude(T, {TOptions.include.items})
    ELSE TransformWithInclude(T, {})

(***************************************************************************)
(* Input pools.                                                            *)
(***************************************************************************)
Strs(seq) == JArr([i \in 1..Len(seq) |-> JStr(seq[i])])

\* sequences over S of length at most n
SeqsUpTo(S, n) == UNION {[1..k -> S] : k \in 0..n}

\* the attributes of a node: relation, alias, field subset
NodeLabels ==
    { [model |-> "posts", as |-> JUndefined, fields |-> JUndefined],
      [model |-> "author", as |-> JStr("writer"), fields |-> Strs(<<"name", "email">>)],
      [model |-> "tags", as |-> JStr(""), fields |-> Strs(<<>>)] }

GenLabels ==
    { [model |-> "posts", as |-> JUndefined, fields |-> JUndefined],
      [model |-> "author", as |-> JStr("writer"), fields |-> Strs(<<"name">>)] }

\* trees with exactly k nodes and forests (lists of trees) with exactly n
RECURSIVE TreesOf(_, _, _), ForestsOf(_, _, _)
TreesOf(k, labels, leaves) ==
    IF k = 1
    THEN {Node(l.model, l.as, l.fields, inc) : l \in labels, inc \in leaves}
    ELSE {Node(l.model, l.as, l.fields, JArr(f)) :
             l \in labels, f \in ForestsOf(k - 1, labels, leaves)}

ForestsOf(n, labels, leaves) ==
    IF n = 0 THEN {<<>>}
    ELSE UNION {{<<t>> \o r : t \in TreesOf(k, labels, leaves),
                              r \in ForestsOf(n - k, labels, leaves)} :
                k \in 1..n}

IncludeForests ==
    UNION {ForestsOf(n, NodeLabels, {JUndefined, JArr(<<>>)}) : n \in 0..MaxNodes}

GenForests ==
    UNION {ForestsOf(n, GenLabels, {JUndefined}) : n \in 0..(MaxNodes - 1)}

WhereProps ==
    { Prop("active", JBool(TRUE)), Prop("name", JStr("Smith")),
      Prop("name", JStr("O'B")), Prop("age", JNum(30)), Prop("ref", JNull) }

DistinctKeys(props) ==
    \A i, j \in 1..Len(props) : props[i].key = props[j].key => i = j

Wheres ==
    {JUndefined} \cup
    {JObj(ps) : ps \in {q \in SeqsUpTo(WhereProps, MaxWhere) : DistinctKeys(q)}}

OrderAttrs == {"name", "-age", "-"}

Orders ==
    {JUndefined, JStr("")} \cup {JStr(a) : a \in OrderAttrs}
    \cup {Strs(os) : os \in SeqsUpTo(OrderAttrs, MaxOrder)}

Counts == {JUndefined} \cup {JNum(n) : n \in 0..MaxLimit}

Tables == {"user", "order_item"}

Overrides ==
    { JUndefined, JStr(""), JStr("  "), JStr(" WHERE age > 18 "),
      JStr("ORDER BY name limit 5") }

GenFields == {JUndefined, Strs(<<>>), Strs(<<"id", "name">>)}

GenWheres ==
    { JUndefined, JObj(<<>>), JObj(<<Prop("active", JBool(TRUE))>>),
      JObj(<<Prop("name", JStr("O'B")), Prop("age", JNum(30))>>) }

GenOrders == {JUndefined, JStr("name"), Strs(<<"-age">>)}

GenCounts == {JUndefined, JNum(0), JNum(2)}

GenIncludes == {JUndefined} \cup {JArr(f) : f \in GenForests}

Options(fields, where, order, limit, offset, include, surrealql) ==
    [fields |-> fields, where |-> where, order |-> order, limit |-> limit,
     offset |-> offset, include |-> include, surrealql |-> surrealql]

\* { data, as } and { data, as, dataAs }: the tagged form of a casting input
Tagged(data, as) == JObj(<<Prop("data", data), Prop("as", as)>>)

TaggedItems(data, as, dataAs) ==
    JObj(<<Prop("data", data), Prop("as", as), Prop("dataAs", dataAs)>>)

\* { key1: v1, key2: v2, ... }
ObjOf(vals) == JObj([i \in 1..Len(vals) |-> Prop("key" \o ToString(i), vals[i])])

CastStrings ==
    { "hello", "O'B", "invalid", "", "NULL", "  ", " x ", "0", "1", "true",
      "false", "42", "42.5", "abc", "-0.5", "42.50abc", "$param", "$a$b",
      "user:john", "a:b:c", "2024-01-01T00:00:00.000Z", "invalid-date" }

CastScalars ==
    { JNull, JUndefined, JBool(TRUE), JBool(FALSE), JNum(0), JNum(1), JNum(42),
      JNum(0 - 3), JDec(42, "5"), JDec(0 - 1, "5"), JNaN }
    \cup {JStr(s) : s \in CastStrings}

\* what an array or an object handed to casting holds
CastElems ==
    { JNum(1), JStr("two"), JBool(TRUE), JNull, JUndefined,
      Tagged(JNum(42), JStr("float")), Tagged(JStr("7"), JStr("")),
      JObj(<<Prop("b", JNull)>>), JArr(<<>>) }

CastArrays == {JArr(items) : items \in SeqsUpTo(CastElems, MaxItems)}

CastObjects == {ObjOf(vals) : vals \in SeqsUpTo(CastElems, MaxItems)}

CastData == CastScalars \cup CastArrays \cup CastObjects

CastTags ==
    { JStr(a) : a \in { "int", "float", "number", "bool", "string", "array",
                        "object", "datetime", "record", "INT", "Bool",
                        "unknown-type", "nonexistent", "", "NONE" } }
    \cup {JNull, JUndefined, JNum(5), JBool(TRUE), JArr(<<>>)}

\* the tags an array or an object is handed over with
CastGroupTags ==
    {JStr("array"), JStr("object"), JStr("bool"), JStr("int"), JStr("float"),
     JStr("number"), JStr("string"), JUndefined}

CastInputs ==
    CastData
    \cup {Tagged(d, a) : d \in CastScalars, a \in CastTags}
    \cup {Tagged(d, a) : d \in CastArrays \cup CastObjects, a \in CastGroupTags}
    \cup {TaggedItems(d, a, JStr("float")) :
             d \in CastArrays, a \in {JStr("array"), JUndefined}}


\* the values of a record handed to CREATE or UPDATE
RecordValues == {JStr("O'B"), JNum(30), JNull, JArr(<<JNum(1), JStr("two")>>)}

Records == {ObjOf(vals) : vals \in SeqsUpTo(RecordValues, MaxItems)}

\* options.data: one record, or a list of records
RecordData ==
    Records
    \cup { JArr(<<ObjOf(<<JStr("O'B")>>)>>),
           JArr(<<ObjOf(<<JNum(30)>>), ObjOf(<<JStr("Smith")>>)>>) }

RecordIds == {JUndefined, JStr(""), JStr("john")}

Contents == {JUndefined, JBool(TRUE), JBool(FALSE)}

Returns == {JUndefined, JStr("BEFORE")}

MutationWheres ==
    {JUndefined, JObj(<<>>), JObj(<<Prop("name", JStr("O'B")), Prop("age", JNum(30))>>)}

MutationOverrides ==
    {JUndefined, JStr(""), JStr("  "), JStr(" INFO FOR TABLE user; ")}

MutationOptions(id, data, content, where, return, surrealql) ==
    [id |-> id, data |-> data, content |-> content, where |-> where,
     return |-> return, surrealql |-> surrealql]

\* an object of timestamp flags: each flag true, false or left out
FlagValues == {JUndefined, JBool(TRUE), JBool(FALSE)}

FlagsOf(c, u, d) ==
    JObj((IF c = JUndefined THEN <<>> ELSE <<Prop("createdAt", c)>>)
         \o (IF u = JUndefined THEN <<>> ELSE <<Prop("updatedAt", u)>>)
         \o (IF d = JUndefined THEN <<>> ELSE <<Prop("deletedAt", d)>>))

Timestamps ==
    {JUndefined, JBool(TRUE), JBool(FALSE)}
    \cup {FlagsOf(c, u, d) : c \in FlagValues, u \in FlagValues, d \in FlagValues}

\* the schemas of the type tests, and one whose relation leads to a record
\* with relations of its own
StringT == {PrimT("string")}

UserI ==
    ObjT(<<Attr("id", StringT), Attr("name", StringT), Attr("email", StringT)>>)

ClassProgramI ==
    ObjT(<<Attr("id", StringT), Attr("name", StringT),
           Attr("duration", {PrimT("number")})>>)

ClassScholarI ==
    ObjT(<<Attr("id", StringT),
           Attr("scholar", StringT \cup {UserI}),
           Attr("program", StringT \cup {ClassProgramI}),
           Attr("medicalInformation", {PrimT("string"), PrimT("null")}),
           Attr("description", {PrimT("string"), PrimT("null")})>>)

Class ==
    ObjT(<<Attr("id", StringT),
           Attr("scholars", {ArrT(StringT), ArrT({ClassScholarI})}),
           Attr("program", StringT \cup {ClassProgramI})>>)

SeatI ==
    ObjT(<<Attr("id", StringT), Attr("occupant", StringT \cup {ClassScholarI})>>)

Schemas == {UserI, ClassProgramI, ClassScholarI, Class, SeatI}

RelationLabels ==
    { [model |-> m, as |-> JUndefined, fields |-> JUndefined] :
        m \in {"scholar", "program", "scholars", "occupant"} }

\* the options of a typed call: no include, or an include tuple
TypeOptions ==
    {[include |-> JUndefined]}
    \cup { [include |-> JArr(f)] :
             f \in UNION { ForestsOf(n, RelationLabels, {JUndefined, JArr(<<>>)}) :
                           n \in 0..(MaxNodes - 1) } }

(***************************************************************************)
(* DEFINE TABLE and DEFINE FIELD statements.                               *)
(***************************************************************************)
TableOpts(creationMode, type, relation, asExpr, changefeed, permissions,
          timestamps) ==
    [creationMode |-> creationMode, type |-> type, relation |-> relation,
     asExpr |-> asExpr, changefeed |-> changefeed,
     permissions |-> permissions, timestamps |-> timestamps]

FieldOpts(creationMode, optional) ==
    [creationMode |-> creationMode, optional |-> optional]

\* ` FOR <kind> ${expr}` when the expression is given
permissionFor(permissions, kind) ==
    IF truthy(get(permissions, kind \o "Expr"))
    THEN " FOR " \o kind \o " " \o toStr(get(permissions, kind \o "Expr"))
    ELSE ""

generatePermissionsQuery(permissions) ==
    IF ~truthy(permissions) THEN ""
    ELSE " PERMISSIONS " \o
         (IF truthy(get(permissions, "none")) THEN "NONE"
          ELSE IF truthy(get(permissions, "full")) THEN "FULL"
          ELSE permissionFor(permissions, "select")
               \o permissionFor(permissions, "create")
               \o permissionFor(permissions, "update")
               \o permissionFor(permissions, "delete"))

generateTableQuery(table, base, options) ==
    trim("DEFINE TABLE "
         \o (IF ~truthy(options.creationMode) THEN ""
             ELSE IF toStr(options.creationMode) = "OVERWRITE" THEN "OVERWRITE "
             ELSE IF toStr(options.creationMode) = "IFNOTEXISTS"
             THEN "IF NOT EXISTS "
             ELSE "")
         \o table \o " " \o base
         \o (IF truthy(options.type) THEN " TYPE " \o toStr(options.type) ELSE "")
         \o (IF truthy(options.relation)
             THEN " FROM " \o toStr(get(options.relation, "from"))
                  \o " TO " \o toStr(get(options.relation, "to"))
             ELSE "")
         \o (IF truthy(options.asExpr) THEN " AS " \o toStr(options.asExpr) ELSE "")
         \o (IF truthy(options.changefeed)
             THEN " CHANGEFEED " \o toStr(get(options.changefeed, "duration"))
                  \o toStr(get(options.changefeed, "unit"))
             ELSE "")
         \o (IF truthy(options.permissions)
             THEN generatePermissionsQuery(options.permissions) ELSE ""))

\* type is one data type name or a list of them
generateFieldQuery(table, name, type, options) ==
    "DEFINE FIELD"
    \o (IF ~truthy(options.creationMode) THEN ""
        ELSE IF toStr(options.creationMode) = "OVERWRITE" THEN " OVERWRITE"
        ELSE IF toStr(options.creationMode) = "IFNOTEXISTS" THEN " IF NOT EXISTS"
        ELSE "")
    \o " " \o name \o " ON TABLE " \o table \o " "
    \o (IF toStr(type) = "object" THEN "FLEXIBLE TYPE " ELSE "TYPE ")
    \o (IF truthy(options.optional) THEN "option<" ELSE "")
    \o (IF type.t = "string" THEN type.str ELSE "")
    \o (IF truthy(options.optional) THEN "> " ELSE "")

(***************************************************************************)
(* The Surreality class.  An operation runs in segments: from the call to  *)
(* its first await, and from the settling of the awaited client call to    *)
(* the next await or the return; a segment runs without interruption.      *)
(***************************************************************************)
\* the client handle handed to the constructor
Client == JObj(<<>>)

\* what a failed client call throws: an Error with a message, or another value
Thrown(message) == [isError |-> TRUE, message |-> message]

ThrownValue == [isError |-> FALSE, message |-> ""]

\* error instanceof Error ? error.message : "Unknown error occured"
messageOf(error) ==
    IF error.isError THEN error.message ELSE "Unknown error occured"

\* { error: { status: false, message } }
ErrorResponse(message) ==
    JObj(<<Prop("error", JObj(<<Prop("status", JBool(FALSE)),
                                Prop("message", JStr(message))>>))>>)

\* v[i] of a JavaScript array, undefined past its end
item(v, i) == IF i < Len(v.items) THEN v.items[i + 1] ELSE JUndefined

\* a ?? b
orElse(a, b) == IF a.t \in {"undefined", "null"} THEN b ELSE a

\* variant: only the handle is checked
usageFault_HandleOnly ==
    IF ~truthy(thisSurreal) THEN "Not connected to SurrealDB" ELSE ""

\* the two checks that open every operation: the message thrown, or ""
usageFault ==
    IF ~truthy(thisSurreal) THEN "Not connected to SurrealDB"
    ELSE IF ~truthy(thisTable) THEN "Table is not written"
    ELSE ""

\* variant: the message does not say which operation failed
executeFailure_Unnamed(op, error) ==
    ErrorResponse("Failed to execute query: " \o messageOf(error))

\* the catch block of findAll, findOne, create, update and delete
executeFailure(op, error) ==
    ErrorResponse("Failed to execute " \o op \o " on table "
                  \o toStr(thisTable) \o ": " \o messageOf(error))

\* the catch block of defineTable and defineField
defineFailure(context, error) ==
    ErrorResponse("Failed to define " \o context \o ": " \o messageOf(error))

failure(op, a, error) ==
    IF op = "defineTable"
    THEN defineFailure("table with name " \o toStr(thisTable), error)
    ELSE IF op = "defineField"
    THEN defineFailure("field with name " \o a.name, error)
    ELSE executeFailure(op, error)

\* what findAll returns for the client's response
unwrapFindAll(raw, response) ==
    IF truthy(raw) THEN response
    ELSE IF isArray(response) /\ isArray(item(response, 0))
    THEN orElse(item(response, 0), JNull)
    ELSE response

\* variant: the first statement's whole result is returned, as findAll does
unwrapFindOne_FirstStatement(raw, response) ==
    IF truthy(raw) THEN response
    ELSE IF isArray(response) /\ isArray(item(response, 0))
    THEN orElse(item(response, 0), JNull)
    ELSE JNull

\* what findOne returns for the client's response
unwrapFindOne(raw, response) ==
    IF truthy(raw) THEN response
    ELSE IF isArray(response) /\ isArray(item(response, 0))
    THEN orElse(item(item(response, 0), 0), JNull)
    ELSE JNull

\* what create, update and delete return for the client's response
unwrapMutation(raw, response) ==
    IF truthy(raw) THEN response
    ELSE IF /\ isArray(response)
            /\ Len(response.items) > 0
            /\ isTypeofObject(item(response, 0))
            /\ item(response, 0) # JNull
            /\ hasKey(item(response, 0), "result")
    THEN get(item(response, 0), "result")
    ELSE response

unwrap(op, a, response) ==
    IF op = "findAll" THEN unwrapFindAll(a.raw, response)
    ELSE IF op = "findOne" THEN unwrapFindOne(a.raw, response)
    ELSE IF op \in {"create", "update", "delete"}
    THEN unwrapMutation(a.raw, response)
    ELSE JUndefined

\* a caller's call: where it stands, its operation and arguments, the
\* statements still to send, the statements handed to the client so far, how
\* many of them the client has settled, the last settlement, and the value
\* the call resolved to
NoCall ==
    [pc |-> "idle", op |-> "", a |-> <<>>, queue |-> <<>>, sent |-> <<>>,
     settled |-> 0, outcome |-> <<>>, ret |-> JUndefined]

\* the call threw before its first await and went through its catch block
failed(op, a, error) ==
    [pc |-> "done", op |-> op, a |-> a, queue |-> <<>>, sent |-> <<>>,
     settled |-> 0, outcome |-> [ok |-> FALSE, value |-> error],
     ret |-> failure(op, a, error)]

\* the call handed its first statement to the client and awaits the answer
awaiting(op, a, statements) ==
    [pc |-> "awaiting", op |-> op, a |-> a, queue |-> Tail(statements),
     sent |-> <<Head(statements)>>, settled |-> 0, outcome |-> <<>>,
     ret |-> JUndefined]

(***************************************************************************)
(* Inputs of the Surreality operations, and the client's answers.          *)
(***************************************************************************)
\* the callers whose calls run concurrently on the instance
Callers == {"first", "second"}

NoOptions ==
    Options(JUndefined, JUndefined, JUndefined, JUndefined, JUndefined,
            JUndefined, JUndefined)

\* findAll(options) and findOne(options): the options and their raw flag
InstanceSelects ==
    { [options |-> NoOptions, raw |-> JUndefined],
      [options |-> Options(Strs(<<"id", "name">>),
                           JObj(<<Prop("active", JBool(TRUE))>>), JUndefined,
                           JUndefined, JUndefined, JUndefined, JUndefined),
       raw |-> JBool(TRUE)] }

\* create(options) and update(options)
InstanceMutations ==
    { [options |-> MutationOptions(JStr("john"), ObjOf(<<JStr("O'B")>>),
                                   JUndefined, JUndefined, JUndefined,
                                   JUndefined),
       raw |-> JUndefined],
      [options |-> MutationOptions(JUndefined, ObjOf(<<JNum(30)>>),
                                   JBool(TRUE), JUndefined, JStr("BEFORE"),
                                   JUndefined),
       raw |-> JBool(TRUE)] }

\* delete(options)
InstanceDeletes ==
    { [options |-> MutationOptions(JStr("john"), JUndefined, JUndefined,
                                   JUndefined, JUndefined, JUndefined),
       raw |-> JUndefined],
      [options |-> MutationOptions(JUndefined, JUndefined, JUndefined,
                                   JObj(<<Prop("age", JNum(30))>>),
                                   JStr("BEFORE"), JUndefined),
       raw |-> JBool(TRUE)] }

TableOptsOf(creationMode, timestamps) ==
    TableOpts(creationMode, JUndefined, JUndefined, JUndefined, JUndefined,
              JUndefined, timestamps)

\* defineTable(base, options)
InstanceTables ==
    { [base |-> "SCHEMAFULL", options |-> TableOptsOf(JUndefined, JUndefined)],
      [base |-> "SCHEMALESS",
       options |-> TableOptsOf(JStr("IFNOTEXISTS"), JBool(FALSE))],
      [base |-> "SCHEMAFULL", options |-> TableOptsOf(JUndefined, JNull)] }

\* defineField(name, type, options)
InstanceFields ==
    { [name |-> "meta", type |-> JStr("object"),
       options |-> FieldOpts(JStr("IFNOTEXISTS"), JBool(TRUE))] }

\* a record of the client's answer; it carries the statement it answers
Answer(statement) ==
    JObj(<<Prop("id", JStr("user:john")), Prop("statement", JStr(statement))>>)

OtherAnswer == JObj(<<Prop("id", JStr("user:jane"))>>)

IsDefinition(statement) ==
    Len(statement) >= 6 /\ SubSeq(statement, 1, 6) = "DEFINE"

\* what the client may resolve a statement with: one result per statement
\* (a list of records, possibly empty), or a response of another shape
Responses(statement) ==
    IF IsDefinition(statement) THEN {JArr(<<JNull>>)}
    ELSE { JArr(<<JArr(<<Answer(statement), OtherAnswer>>)>>),
           JArr(<<JArr(<<>>)>>),
           JArr(<<Answer(statement)>>),
           JArr(<<JObj(<<Prop("result", JArr(<<Answer(statement)>>)),
                         Prop("status", JStr("OK"))>>)>>),
           JNull }

\* what the client may reject a statement with
Rejections == {Thrown("Parse error"), ThrownValue}

\* no instance under observation
NoInstance ==
    /\ thisSurreal = JNull
    /\ thisTable = JNull
    /\ calls = [c \in Callers |-> NoCall]

(***************************************************************************)
(* The Manager class.  Its methods run in segments like Surreality's.      *)
(***************************************************************************)
\* the client objects connect may create in one run
MaxClients == 2

\* the n-th client object made by new Surreal()
Surreal(n) == [t |-> "object", entries |-> <<>>, client |-> n]

Config(url, namespace, database, username, password) ==
    [url |-> url, namespace |-> namespace, database |-> database,
     username |-> username, password |-> password]

\* the options connect builds for its mode from the configuration
connectOptions(mode) ==
    IF mode = "ROOT"
    THEN JObj(<<Prop("auth",
                  JObj(<<Prop("username", managerConfig.username),
                         Prop("password", managerConfig.password)>>))>>)
    ELSE IF mode = "NAMESPACE"
    THEN JObj(<<Prop("namespace", managerConfig.namespace),
                Prop("auth",
                  JObj(<<Prop("username", managerConfig.username),
                         Prop("password", managerConfig.password),
                         Prop("namespace", managerConfig.namespace)>>))>>)
    ELSE JObj(<<Prop("namespace", managerConfig.namespace),
                Prop("database", managerConfig.database),
                Prop("auth",
                  JObj(<<Prop("username", managerConfig.username),
                         Prop("password", managerConfig.password),
                         Prop("namespace", managerConfig.namespace),
                         Prop("database", managerConfig.database)>>))>>)

\* error instanceof Error ? error.message : "Unknown error occurred"
messageOrUnknown(error, unknown) ==
    IF error.isError THEN error.message ELSE unknown

\* the statement getInfo sends
infoQuery(scope, user) ==
    IF truthy(user)
    THEN "INFO FOR USER " \o toStr(user) \o " ON " \o scope \o ";"
    ELSE "INFO FOR " \o scope \o ";"

\* ` DURATION FOR SESSION ...`, ` DURATION FOR TOKEN ...`, both or neither
durationClause(session, token) ==
    IF truthy(session) /\ ~truthy(token)
    THEN " DURATION FOR SESSION " \o toStr(get(session, "time"))
         \o toStr(get(session, "unit"))
    ELSE IF ~truthy(session) /\ truthy(token)
    THEN " DURATION FOR TOKEN " \o toStr(get(token, "time"))
         \o toStr(get(token, "unit"))
    ELSE IF truthy(session) /\ truthy(token)
    THEN " DURATION FOR SESSION " \o toStr(get(session, "time"))
         \o toStr(get(session, "unit")) \o ", FOR TOKEN "
         \o toStr(get(token, "time")) \o toStr(get(token, "unit"))
    ELSE ""

\* /^[a-zA-Z0-9_-]+$/.test(username)
validUsername(username) ==
    /\ username # ""
    /\ \A i \in 1..Len(username) :
           \/ IsDigit(Ch(username, i))
           \/ Ch(username, i) \in {"_", "-"}
           \/ \E j \in 1..26 :
                  Ch(username, i) \in
                      { Ch("abcdefghijklmnopqrstuvwxyz", j),
                        Ch("ABCDEFGHIJKLMNOPQRSTUVWXYZ", j) }

userQuery(scope, role, username, password, session, token) ==
    "DEFINE USER " \o username \o " ON " \o scope \o " PASSWORD '" \o password
    \o "' ROLES " \o role \o durationClause(session, token) \o ";"

\* `OVERWRITE ` and `IF NOT EXISTS `, each when its flag is set
modePrefix(opts) ==
    (IF truthy(opts) /\ truthy(get(opts, "overwrite")) THEN "OVERWRITE " ELSE "")
    \o (IF truthy(opts) /\ truthy(get(opts, "ifNotExists"))
        THEN "IF NOT EXISTS " ELSE "")

paramQuery(name, value, opts, permissions) ==
    "DEFINE PARAM " \o modePrefix(opts) \o "$" \o name \o " VALUE "
    \o casting(value)
    \o (IF truthy(permissions) /\ permissions.t = "string"
        THEN " PERMISSIONS " \o permissions.str ELSE "")
    \o ";"

namespaceQuery(name, opts) == "DEFINE NAMESPACE " \o modePrefix(opts) \o name

databaseQuery(name, opts) == "DEFINE DATABASE " \o modePrefix(opts) \o name

\* the catch block of each method: the tagged error it returns
managerFailure(op, a, error) ==
    ErrorResponse(
        CASE op = "connect" ->
                 "Connection failed (" \o a.mode \o "): "
                 \o messageOrUnknown(error, "Unknown error occurred")
          [] op = "query" ->
                 "Failed to execute query: "
                 \o messageOrUnknown(error, "Unknown error occurred")
          [] op = "getInfo" ->
                 "Failed to get " \o a.scope
                 \o (IF truthy(a.user) THEN " user info" ELSE " info") \o ": "
                 \o messageOrUnknown(error, "Unknown error occurred")
          [] op = "use" ->
                 "Scope update failed: "
                 \o messageOrUnknown(error, "Unknown error occurred")
          [] op = "defineUser" ->
                 "Failed to define " \o a.username \o " with " \o a.role
                 \o " role on " \o a.scope \o " scope: "
                 \o messageOrUnknown(error, "Unknown error occured")
          [] op = "defineParam" ->
                 "Failed to define parameter with name of " \o a.name
                 \o " and value of " \o toStr(a.value) \o ": "
                 \o messageOrUnknown(error, "Unknown error occured")
          [] op = "defineNamespace" ->
                 "Failed to define namespace with name of " \o a.name \o ": "
                 \o messageOrUnknown(error, "Unknown error occured")
          [] OTHER ->
                 "Failed to define database with name of " \o a.name \o ": "
                 \o messageOrUnknown(error, "Unknown error occured"))

\* a caller's call on the manager: where it stands, its method and
\* arguments, what it asked of the client, its local bindings, the
\* settlement of the awaited client call, and how the call ended
NoManagerCall ==
    [pc |-> "idle", op |-> "", a |-> <<>>, request |-> <<>>, locals |-> <<>>,
     outcome |-> <<>>, raised |-> FALSE, ret |-> JUndefined]

\* the call threw before its first await and went through its catch block
managerFailed(op, a, error) ==
    [pc |-> "done", op |-> op, a |-> a, request |-> <<>>, locals |-> <<>>,
     outcome |-> [ok |-> FALSE, value |-> error], raised |-> FALSE,
     ret |-> managerFailure(op, a, error)]

\* the call asked something of the client and awaits the answer
managerAwaiting(op, a, request, locals) ==
    [pc |-> "awaiting", op |-> op, a |-> a, request |-> request,
     locals |-> locals, outcome |-> <<>>, raised |-> FALSE, ret |-> JUndefined]

\* this.surreal.query(text)
queryRequest(text) == [on |-> managerSurreal, kind |-> "query", text |-> text]

\* the start of the methods that send one statement: the connection check,
\* then the statement handed to the client
sendStatement(op, a, text) ==
    IF ~truthy(managerSurreal)
    THEN managerFailed(op, a, Thrown("Not connected to SurrealDB"))
    ELSE managerAwaiting(op, a, queryRequest(text), <<>>)

\* variant: the configuration is stored whether or not the client's call
\* succeeded
configAfter_Always(call) ==
    IF call.op = "use"
    THEN [managerConfig EXCEPT !.namespace = call.locals.targetNs,
                               !.database = call.locals.targetDb]
    ELSE managerConfig

\* this.config once the call has gone on after its await
configAfter(call) ==
    IF call.op = "use" /\ call.outcome.ok
    THEN [managerConfig EXCEPT !.namespace = call.locals.targetNs,
                               !.database = call.locals.targetDb]
    ELSE managerConfig

\* variant: connect stores its client before the connection is established
surrealAfter_Eager(call) ==
    IF call.op = "connect" THEN call.locals.db
    ELSE IF call.op = "disconnect" /\ call.outcome.ok THEN JNull
    ELSE managerSurreal

\* this.surreal once the call has gone on after its await
surrealAfter(call) ==
    IF call.op = "connect" /\ call.outcome.ok THEN call.locals.db
    ELSE IF call.op = "disconnect" /\ call.outcome.ok THEN JNull
    ELSE managerSurreal

\* how the call ends once it has gone on after its await
managerEnded(call) ==
    IF call.op = "disconnect"
    THEN [call EXCEPT !.pc = "done", !.raised = ~call.outcome.ok]
    ELSE IF ~call.outcome.ok
    THEN [call EXCEPT !.pc = "done",
                      !.ret = managerFailure(call.op, call.a, call.outcome.value)]
    ELSE IF call.op \in {"connect", "use"}
    THEN [call EXCEPT !.pc = "done"]
    ELSE [call EXCEPT !.pc = "done", !.ret = call.outcome.value]

(***************************************************************************)
(* Inputs of the Manager methods.                                          *)
(***************************************************************************)
Modes == {"DATABASE", "ROOT"}

\* use(params): each of namespace and database given, empty, or left out
UseParams ==
    { [namespace |-> JStr("app"), database |-> JUndefined],
      [namespace |-> JUndefined, database |-> JStr("main")],
      [namespace |-> JStr(""), database |-> JStr("main")] }

Statements == {"INFO FOR DB;"}

InfoCalls == {[scope |-> "ROOT", user |-> JStr("admin")]}

UserCalls ==
    { [scope |-> "DATABASE", role |-> "VIEWER", username |-> u,
       password |-> "secret", session |-> JUndefined, token |-> JUndefined] :
          u \in {"app_user", "not valid"} }

ParamCalls ==
    { [name |-> "limit", value |-> JNum(30), opts |-> JUndefined,
       permissions |-> JStr("FULL")] }

NameCalls ==
    { [name |-> "analytics", opts |-> JObj(<<Prop("ifNotExists", JBool(TRUE))>>)] }

\* what the client resolves a request with
ManagerResponses(request) ==
    IF request.kind = "query" THEN {JArr(<<JNull>>)} ELSE {JUndefined}

\* what the client rejects a request with
ManagerRejections == {Thrown("Connection lost")}

\* new Manager(url, namespace, database, username, password)
Managers ==
    { Config(JStr("http://localhost:8080"), JStr("surreality"),
             JStr("surreality"), JStr("surrealist"), JStr("surrealist")) }

\* no manager under observation
NoManager ==
    /\ managerSurreal = JNull
    /\ managerConfig = Config(JStr(""), JStr(""), JStr(""), JStr(""), JStr(""))
    /\ managerClients = 0
    /\ managerCalls = [c \in Callers |-> NoManagerCall]

(***************************************************************************)
(* The state machine: one action per exported function; a call records the *)
(* function, its arguments and what it returned, until the caller returns. *)
(***************************************************************************)
Init ==
    /\ fn = "none" /\ args = <<>> /\ result = ""
    /\ NoInstance
    /\ NoManager

CallFlattenIncludes ==
    /\ fn = "none"
    /\ UNCHANGED <<instance, manager>>
    /\ \E f \in IncludeForests :
           /\ fn' = "flattenIncludes"
           /\ args' = [include |-> f]
           /\ result' = flattenIncludes(f, "")

CallCollectIncludeFields ==
    /\ fn = "none"
    /\ UNCHANGED <<instance, manager>>
    /\ \E f \in IncludeForests :
           /\ fn' = "collectIncludeFields"
           /\ args' = [include |-> f]
           /\ result' = collectIncludeFields(f, "")

CallGenerateFetchClause ==
    /\ fn = "none"
    /\ UNCHANGED <<instance, manager>>
    /\ \E inc \in {JUndefined} \cup {JArr(f) : f \in IncludeForests} :
           /\ fn' = "generateFetchClause"
           /\ args' = [include |-> inc]
           /\ result' = generateFetchClause(inc)

CallGenerateWhereClause ==
    /\ fn = "none"
    /\ UNCHANGED <<instance, manager>>
    /\ \E w \in Wheres :
           /\ fn' = "generateWhereClause"
           /\ args' = [where |-> w]
           /\ result' = generateWhereClause(w)

CallGenerateOrderByClause ==
    /\ fn = "none"
    /\ UNCHANGED <<instance, manager>>
    /\ \E o \in Orders :
           /\ fn' = "generateOrderByClause"
           /\ args' = [order |-> o]
           /\ result' = generateOrderByClause(o)

CallGenerateLimitOffsetClause ==
    /\ fn = "none"
    /\ UNCHANGED <<instance, manager>>
    /\ \E l \in Counts, o \in Counts :
           /\ fn' = "generateLimitOffsetClause"
           /\ args' = [limit |-> l, offset |-> o]
           /\ result' = generateLimitOffsetClause(l, o)

CallGenerateFindAllQuery ==
    /\ fn = "none"
    /\ UNCHANGED <<instance, manager>>
    /\ \E tb \in Tables, f \in GenFields, w \in GenWheres, o \in GenOrders,
          l \in GenCounts, s \in GenCounts, inc \in GenIncludes, q \in Overrides :
           LET options == Options(f, w, o, l, s, inc, q)
           IN  /\ fn' = "generateFindAllQuery"
               /\ args' = [table |-> tb, options |-> options]
               /\ result' = generateFindAllQuery(tb, options)

CallGenerateFindOneQuery ==
    /\ fn = "none"
    /\ UNCHANGED <<instance, manager>>
    /\ \E tb \in Tables, f \in GenFields, w \in GenWheres, inc \in GenIncludes,
          q \in Overrides :
           LET options == Options(f, w, JUndefined, JUndefined, JUndefined, inc, q)
           IN  /\ fn' = "generateFindOneQuery"
               /\ args' = [table |-> tb, options |-> options]
               /\ result' = generateFindOneQuery(tb, options)

CallCasting ==
    /\ fn = "none"
    /\ UNCHANGED <<instance, manager>>
    /\ \E opt \in CastInputs :
           /\ fn' = "casting"
           /\ args' = [opt |-> opt]
           /\ result' = casting(opt)

CallGenerateCreateQuery ==
    /\ fn = "none"
    /\ UNCHANGED <<instance, manager>>
    /\ \E tb \in Tables, id \in RecordIds, data \in RecordData,
          c \in Contents, q \in MutationOverrides :
           LET options == MutationOptions(id, data, c, JUndefined, JUndefined, q)
           IN  /\ fn' = "generateCreateQuery"
               /\ args' = [table |-> tb, options |-> options]
               /\ result' = generateCreateQuery(tb, options)

CallGenerateUpdateQuery ==
    /\ fn = "none"
    /\ UNCHANGED <<instance, manager>>
    /\ \E tb \in Tables, id \in RecordIds, data \in RecordData,
          c \in Contents, w \in MutationWheres, r \in Returns,
          q \in MutationOverrides :
           LET options == MutationOptions(id, data, c, w, r, q)
           IN  /\ fn' = "generateUpdateQuery"
               /\ args' = [table |-> tb, options |-> options]
               /\ result' = generateUpdateQuery(tb, options)

CallGenerateDeleteQuery ==
    /\ fn = "none"
    /\ UNCHANGED <<instance, manager>>
    /\ \E tb \in Tables, id \in RecordIds, w \in MutationWheres,
          q \in MutationOverrides :
           LET options == MutationOptions(id, JUndefined, JUndefined, w,
                                          JUndefined, q)
           IN  /\ fn' = "generateDeleteQuery"
               /\ args' = [table |-> tb, options |-> options]
               /\ result' = generateDeleteQuery(tb, options)

CallAdditionalFields ==
    /\ fn = "none"
    /\ UNCHANGED <<instance, manager>>
    /\ \E tb \in Tables, ts \in Timestamps :
           /\ fn' = "additionalFields"
           /\ args' = [table |-> tb, timestamps |-> ts]
           /\ result' = additionalFields(tb, ts)

CallWithInclude ==
    /\ fn = "none"
    /\ UNCHANGED <<instance, manager>>
    /\ \E T \in Schemas, o \in TypeOptions :
           /\ fn' = "WithInclude"
           /\ args' = [schema |-> T, options |-> o]
           /\ result' = WithInclude({T}, o)

\* the caller takes the returned value; the next call starts afresh
Return ==
    /\ fn # "none"
    /\ UNCHANGED <<instance, manager>>
    /\ fn' = "none"
    /\ args' = <<>>
    /\ result' = ""

Next ==
    \/ CallFlattenIncludes
    \/ CallCollectIncludeFields
    \/ CallGenerateFetchClause
    \/ CallGenerateWhereClause
    \/ CallGenerateOrderByClause
    \/ CallGenerateLimitOffsetClause
    \/ CallGenerateFindAllQuery
    \/ CallGenerateFindOneQuery
    \/ CallCasting
    \/ CallGenerateCreateQuery
    \/ CallGenerateUpdateQuery
    \/ CallGenerateDeleteQuery
    \/ CallAdditionalFields
    \/ CallWithInclude
    \/ Return

Spec == Init /\ [][Next]_vars

(***************************************************************************)
(* The Surreality state machine: one instance, built with or without a     *)
(* handle and a table name; each caller makes one call on it, and the      *)
(* calls' segments interleave.                                             *)
(***************************************************************************)
\* new Surreality(surreal, table)
SurrealityInit ==
    /\ thisSurreal \in {Client, JNull}
    /\ thisTable \in {JStr("user"), JStr(""), JNull}
    /\ calls = [c \in Callers |-> NoCall]
    /\ fn = "none" /\ args = <<>> /\ result = ""
    /\ NoManager

findAll ==
    /\ \E c \in Callers, a \in InstanceSelects :
           /\ calls[c].pc = "idle"
           /\ calls' = [calls EXCEPT ![c] =
                  IF usageFault # "" THEN failed("findAll", a, Thrown(usageFault))
                  ELSE awaiting("findAll", a,
                           <<generateFindAllQuery(toStr(thisTable), a.options)>>)]
    /\ UNCHANGED <<thisSurreal, thisTable, functions, manager>>

findOne ==
    /\ \E c \in Callers, a \in InstanceSelects :
           /\ calls[c].pc = "idle"
           /\ calls' = [calls EXCEPT ![c] =
                  IF usageFault # "" THEN failed("findOne", a, Thrown(usageFault))
                  ELSE awaiting("findOne", a,
                           <<generateFindOneQuery(toStr(thisTable), a.options)>>)]
    /\ UNCHANGED <<thisSurreal, thisTable, functions, manager>>

create ==
    /\ \E c \in Callers, a \in InstanceMutations :
           /\ calls[c].pc = "idle"
           /\ calls' = [calls EXCEPT ![c] =
                  IF usageFault # "" THEN failed("create", a, Thrown(usageFault))
                  ELSE awaiting("create", a,
                           <<generateCreateQuery(toStr(thisTable), a.options)>>)]
    /\ UNCHANGED <<thisSurreal, thisTable, functions, manager>>

update ==
    /\ \E c \in Callers, a \in InstanceMutations :
           /\ calls[c].pc = "idle"
           /\ calls' = [calls EXCEPT ![c] =
                  IF usageFault # "" THEN failed("update", a, Thrown(usageFault))
                  ELSE awaiting("update", a,
                           <<generateUpdateQuery(toStr(thisTable), a.options)>>)]
    /\ UNCHANGED <<thisSurreal, thisTable, functions, manager>>

delete ==
    /\ \E c \in Callers, a \in InstanceDeletes :
           /\ calls[c].pc = "idle"
           /\ calls' = [calls EXCEPT ![c] =
                  IF usageFault # "" THEN failed("delete", a, Thrown(usageFault))
                  ELSE awaiting("delete", a,
                           <<generateDeleteQuery(toStr(thisTable), a.options)>>)]
    /\ UNCHANGED <<thisSurreal, thisTable, functions, manager>>

\* variant: the default fields are defined before their table
tableStatements_FieldsFirst(a) ==
    additionalFields(toStr(thisTable), a.options.timestamps)
    \o <<generateTableQuery(toStr(thisTable), a.base, a.options)>>

\* the statements defineTable sends: the table's, then the default fields'
tableStatements(a) ==
    <<generateTableQuery(toStr(thisTable), a.base, a.options)>>
    \o additionalFields(toStr(thisTable), a.options.timestamps)

defineTable ==
    /\ \E c \in Callers, a \in InstanceTables :
           /\ calls[c].pc = "idle"
           /\ calls' = [calls EXCEPT ![c] =
                  IF usageFault # ""
                  THEN failed("defineTable", a, Thrown(usageFault))
                  ELSE IF additionalFieldsThrows(a.options.timestamps)
                  THEN failed("defineTable", a,
                           Thrown("Cannot read properties of null (reading 'createdAt')"))
                  ELSE awaiting("defineTable", a, tableStatements(a))]
    /\ UNCHANGED <<thisSurreal, thisTable, functions, manager>>

defineField ==
    /\ \E c \in Callers, a \in InstanceFields :
           /\ calls[c].pc = "idle"
           /\ calls' = [calls EXCEPT ![c] =
                  IF usageFault # ""
                  THEN failed("defineField", a, Thrown(usageFault))
                  ELSE awaiting("defineField", a,
                           <<generateFieldQuery(toStr(thisTable), a.name, a.type,
                                                a.options)>>)]
    /\ UNCHANGED <<thisSurreal, thisTable, functions, manager>>

\* the statement a call is waiting on
inFlight(call) == call.sent[Len(call.sent)]

\* the client resolves the statement a call awaits
clientResolves ==
    /\ \E c \in Callers :
           /\ calls[c].pc = "awaiting"
           /\ \E r \in Responses(inFlight(calls[c])) :
                  calls' = [calls EXCEPT ![c].pc = "settled",
                                         ![c].settled = @ + 1,
                                         ![c].outcome = [ok |-> TRUE, value |-> r]]
    /\ UNCHANGED <<thisSurreal, thisTable, functions, manager>>

\* the client rejects the statement a call awaits
clientRejects ==
    /\ \E c \in Callers :
           /\ calls[c].pc = "awaiting"
           /\ \E e \in Rejections :
                  calls' = [calls EXCEPT ![c].pc = "settled",
                                         ![c].settled = @ + 1,
                                         ![c].outcome = [ok |-> FALSE, value |-> e]]
    /\ UNCHANGED <<thisSurreal, thisTable, functions, manager>>

\* variant: the client's answer is kept in one place shared by the calls,
\* and a call returns what it finds there
resume_SharedResult ==
    /\ \E c \in Callers, d \in Callers :
           LET call == calls[c]
           IN  /\ call.pc = "settled"
               /\ calls[d].pc \in {"settled", "done"}
               /\ calls[d].outcome.ok
               /\ calls' = [calls EXCEPT ![c] =
                      IF ~call.outcome.ok
                      THEN [call EXCEPT !.pc = "done",
                                        !.ret = failure(call.op, call.a,
                                                        call.outcome.value)]
                      ELSE IF call.queue # <<>>
                      THEN [call EXCEPT !.pc = "awaiting",
                                        !.sent = Append(@, Head(call.queue)),
                                        !.queue = Tail(@)]
                      ELSE [call EXCEPT !.pc = "done",
                                        !.ret = unwrap(call.op, call.a,
                                                       calls[d].outcome.value)]]
    /\ UNCHANGED <<thisSurreal, thisTable, functions, manager>>

\* the call goes on after its await: into its catch block on a rejection,
\* to defineTable's next statement, or to its return
resume ==
    /\ \E c \in Callers :
           LET call == calls[c]
           IN  /\ call.pc = "settled"
               /\ calls' = [calls EXCEPT ![c] =
                      IF ~call.outcome.ok
                      THEN [call EXCEPT !.pc = "done",
                                        !.ret = failure(call.op, call.a,
                                                        call.outcome.value)]
                      ELSE IF call.queue # <<>>
                      THEN [call EXCEPT !.pc = "awaiting",
                                        !.sent = Append(@, Head(call.queue)),
                                        !.queue = Tail(@)]
                      ELSE [call EXCEPT !.pc = "done",
                                        !.ret = unwrap(call.op, call.a,
                                                       call.outcome.value)]]
    /\ UNCHANGED <<thisSurreal, thisTable, functions, manager>>

SurrealityNext ==
    \/ findAll
    \/ findOne
    \/ create
    \/ update
    \/ delete
    \/ defineTable
    \/ defineField
    \/ clientResolves
    \/ clientRejects
    \/ resume

SurrealitySpec == SurrealityInit /\ [][SurrealityNext]_vars

(***************************************************************************)
(* The Manager state machine: one manager; each caller makes one call      *)
(* after another on it, and the calls' segments interleave.                *)
(***************************************************************************)
ManagerInit ==
    /\ managerSurreal = JNull
    /\ managerConfig \in Managers
    /\ managerClients = 0
    /\ managerCalls = [c \in Callers |-> NoManagerCall]
    /\ fn = "none" /\ args = <<>> /\ result = ""
    /\ NoInstance

connect ==
    /\ managerClients < MaxClients
    /\ \E c \in Callers, mode \in Modes :
           /\ managerCalls[c].pc = "idle"
           /\ managerCalls' = [managerCalls EXCEPT ![c] =
                  LET db == Surreal(managerClients + 1)
                  IN  managerAwaiting("connect", [mode |-> mode],
                          [on |-> db, kind |-> "connect",
                           url |-> managerConfig.url,
                           options |-> connectOptions(mode)],
                          [db |-> db])]
    /\ managerClients' = managerClients + 1
    /\ UNCHANGED <<managerSurreal, managerConfig, functions, instance>>

disconnect ==
    /\ \E c \in Callers :
           /\ managerCalls[c].pc = "idle"
           /\ managerCalls' = [managerCalls EXCEPT ![c] =
                  IF truthy(managerSurreal)
                  THEN managerAwaiting("disconnect", <<>>,
                           [on |-> managerSurreal, kind |-> "close"], <<>>)
                  ELSE [NoManagerCall EXCEPT !.pc = "done", !.op = "disconnect"]]
    /\ UNCHANGED <<managerSurreal, managerConfig, managerClients, functions,
                   instance>>

query ==
    /\ \E c \in Callers, text \in Statements :
           /\ managerCalls[c].pc = "idle"
           /\ managerCalls' = [managerCalls EXCEPT ![c] =
                  sendStatement("query", [query |-> text], text)]
    /\ UNCHANGED <<managerSurreal, managerConfig, managerClients, functions,
                   instance>>

getInfo ==
    /\ \E c \in Callers, a \in InfoCalls :
           /\ managerCalls[c].pc = "idle"
           /\ managerCalls' = [managerCalls EXCEPT ![c] =
                  sendStatement("getInfo", a, infoQuery(a.scope, a.user))]
    /\ UNCHANGED <<managerSurreal, managerConfig, managerClients, functions,
                   instance>>

use ==
    /\ \E c \in Callers, params \in UseParams :
           /\ managerCalls[c].pc = "idle"
           /\ managerCalls' = [managerCalls EXCEPT ![c] =
                  LET targetNs == orElse(params.namespace, managerConfig.namespace)
                      targetDb == orElse(params.database, managerConfig.database)
                  IN  IF ~truthy(managerSurreal)
                      THEN managerFailed("use", params,
                               Thrown("Not connected to SurrealDB"))
                      ELSE IF ~truthy(targetNs) \/ ~truthy(targetDb)
                      THEN managerFailed("use", params,
                               Thrown("namespace and database must be defined"))
                      ELSE managerAwaiting("use", params,
                               [on |-> managerSurreal, kind |-> "use",
                                namespace |-> targetNs, database |-> targetDb],
                               [targetNs |-> targetNs, targetDb |-> targetDb])]
    /\ UNCHANGED <<managerSurreal, managerConfig, managerClients, functions,
                   instance>>

defineUser ==
    /\ \E c \in Callers, a \in UserCalls :
           /\ managerCalls[c].pc = "idle"
           /\ managerCalls' = [managerCalls EXCEPT ![c] =
                  IF truthy(managerSurreal) /\ ~validUsername(a.username)
                  THEN managerFailed("defineUser", a,
                           Thrown("Invalid username format"))
                  ELSE sendStatement("defineUser", a,
                           userQuery(a.scope, a.role, a.username, a.password,
                                     a.session, a.token))]
    /\ UNCHANGED <<managerSurreal, managerConfig, managerClients, functions,
                   instance>>

defineParam ==
    /\ \E c \in Callers, a \in ParamCalls :
           /\ managerCalls[c].pc = "idle"
           /\ managerCalls' = [managerCalls EXCEPT ![c] =
                  sendStatement("defineParam", a,
                      paramQuery(a.name, a.value, a.opts, a.permissions))]
    /\ UNCHANGED <<managerSurreal, managerConfig, managerClients, functions,
                   instance>>

defineNamespace ==
    /\ \E c \in Callers, a \in NameCalls :
           /\ managerCalls[c].pc = "idle"
           /\ managerCalls' = [managerCalls EXCEPT ![c] =
                  sendStatement("defineNamespace", a,
                      namespaceQuery(a.name, a.opts))]
    /\ UNCHANGED <<managerSurreal, managerConfig, managerClients, functions,
                   instance>>

defineDatabase ==
    /\ \E c \in Callers, a \in NameCalls :
           /\ managerCalls[c].pc = "idle"
           /\ managerCalls' = [managerCalls EXCEPT ![c] =
                  sendStatement("defineDatabase", a,
                      databaseQuery(a.name, a.opts))]
    /\ UNCHANGED <<managerSurreal, managerConfig, managerClients, functions,
                   instance>>

\* the client resolves the request a call awaits
managerResolves ==
    /\ \E c \in Callers :
           /\ managerCalls[c].pc = "awaiting"
           /\ \E r \in ManagerResponses(managerCalls[c].request) :
                  managerCalls' = [managerCalls EXCEPT
                      ![c].pc = "settled",
                      ![c].outcome = [ok |-> TRUE, value |-> r]]
    /\ UNCHANGED <<managerSurreal, managerConfig, managerClients, functions,
                   instance>>

\* the client rejects the request a call awaits
managerRejects ==
    /\ \E c \in Callers :
           /\ managerCalls[c].pc = "awaiting"
           /\ \E e \in ManagerRejections :
                  managerCalls' = [managerCalls EXCEPT
                      ![c].pc = "settled",
                      ![c].outcome = [ok |-> FALSE, value |-> e]]
    /\ UNCHANGED <<managerSurreal, managerConfig, managerClients, functions,
                   instance>>

\* the call goes on after its await: it stores what its method stores, and
\* returns (or, for disconnect, raises what close() rejected with)
managerResumes ==
    /\ \E c \in Callers :
           /\ managerCalls[c].pc = "settled"
           /\ managerSurreal' = surrealAfter(managerCalls[c])
           /\ managerConfig' = configAfter(managerCalls[c])
           /\ managerCalls' = [managerCalls EXCEPT
                  ![c] = managerEnded(managerCalls[c])]
    /\ UNCHANGED <<managerClients, functions, instance>>

\* the caller takes what the call returned and is free to call again
managerReturns ==
    /\ \E c \in Callers :
           /\ managerCalls[c].pc = "done"
           /\ managerCalls' = [managerCalls EXCEPT ![c] = NoManagerCall]
    /\ UNCHANGED <<managerSurreal, managerConfig, managerClients, functions,
                   instance>>

ManagerNext ==
    \/ connect
    \/ disconnect
    \/ query
    \/ getInfo
    \/ use
    \/ defineUser
    \/ defineParam
    \/ defineNamespace
    \/ defineDatabase
    \/ managerResolves
    \/ managerRejects
    \/ managerResumes
    \/ managerReturns

ManagerSpec == ManagerInit /\ [][ManagerNext]_vars

(***************************************************************************)
(* Observations on a returned query.                                       *)
(***************************************************************************)
MinOf(S) == CHOOSE x \in S : \A y \in S : x <= y

\* the text between "SELECT " and the first " FROM "
FieldListOf(q) ==
    SubSeq(q, Len("SELECT ") + 1, MinOf(Occurrences(q, " FROM ")) - 1)

\* the text after the first "FROM <table> ", without the last character
BodyOf(q, table) ==
    LET k == " FROM " \o table \o " "
    IN  SubSeq(q, MinOf(Occurrences(q, k)) + Len(k), Len(q) - 1)

IsSelect(f) == f \in {"generateFindAllQuery", "generateFindOneQuery"}

\* no raw override: surrealql absent (an empty one is treated alike)
NoOverride(o) == o.surrealql = JUndefined \/ o.surrealql = JStr("")

HasOverride(o) == o.surrealql.t = "string" /\ o.surrealql.str # ""

\* where the i-th clause starts in a body that lists the non-empty clauses
\* in order with one blank between neighbours
RECURSIVE SlotOf(_, _)
SlotOf(clauses, i) ==
    IF i = 1 THEN 0
    ELSE SlotOf(clauses, i - 1) +
         (IF clauses[i - 1] = "" THEN 0 ELSE Len(clauses[i - 1]) + 1)

InFixedOrder(body, clauses) ==
    LET n == Len(clauses)
        end == SlotOf(clauses, n + 1)
    IN  /\ Len(body) = IF end = 0 THEN 0 ELSE end - 1
        /\ \A i \in 1..n :
              clauses[i] # "" =>
                /\ SubSeq(body, SlotOf(clauses, i) + 1,
                          SlotOf(clauses, i) + Len(clauses[i])) = clauses[i]
                /\ SlotOf(clauses, i) > 0 => Ch(body, SlotOf(clauses, i)) = " "

(***************************************************************************)
(* Observations on an include tree: a node is addressed by the child       *)
(* indices on the way to it.                                               *)
(***************************************************************************)
ChildrenOf(n) == IF n.include.t = "array" THEN n.include.items ELSE <<>>

RECURSIVE Addresses(_)
Addresses(forest) ==
    UNION {{<<i>>} \cup {<<i>> \o a : a \in Addresses(ChildrenOf(forest[i]))} :
           i \in 1..Len(forest)}

RECURSIVE NodeAt(_, _)
NodeAt(forest, a) ==
    IF Len(a) = 1 THEN forest[a[1]]
    ELSE NodeAt(ChildrenOf(forest[a[1]]), Tail(a))

\* a comes before b in pre-order: a is an ancestor of b, or branches off
\* to the left of b
Before(a, b) ==
    \/ Len(a) < Len(b) /\ SubSeq(b, 1, Len(a)) = a
    \/ \E k \in 1..Len(a) :
          /\ k <= Len(b)
          /\ SubSeq(a, 1, k - 1) = SubSeq(b, 1, k - 1)
          /\ a[k] < b[k]

Rank(forest, a) == 1 + Cardinality({b \in Addresses(forest) : Before(b, a)})

\* the alias when the node has a (non-empty) one, else the relation name
AliasOrModel(n) ==
    IF n.as.t = "string" /\ n.as.str # "" THEN n.as.str ELSE n.model

DotPath(forest, a) ==
    join([k \in 1..Len(a) |-> AliasOrModel(NodeAt(forest, SubSeq(a, 1, k)))], ".")

FieldNames(n) ==
    IF n.fields.t = "array"
    THEN [i \in 1..Len(n.fields.items) |-> n.fields.items[i].str]
    ELSE <<>>

\* how many field paths the nodes at the addresses in S contribute
RECURSIVE FieldCount(_, _)
FieldCount(forest, S) ==
    IF S = {} THEN 0
    ELSE LET a == CHOOSE b \in S : TRUE
         IN  Len(FieldNames(NodeAt(forest, a))) + FieldCount(forest, S \ {a})

FieldsBefore(forest, a) ==
    FieldCount(forest, {b \in Addresses(forest) : Before(b, a)})

(***************************************************************************)
(* Claims.                                                                 *)
(***************************************************************************)

\* C1: without a raw override generateFindAllQuery returns one statement
\* "SELECT <fields> FROM <table> <clauses>;" whose non-empty clauses appear in
\* the order WHERE, ORDER BY, START/LIMIT, FETCH, one blank between them.
C1_FindAllClauseOrder ==
    (fn = "generateFindAllQuery" /\ NoOverride(args.options)) =>
        LET o == args.options
        IN  /\ startsWith(result, "SELECT ")
            /\ Occurrences(result, ";") = {Len(result)}
            /\ Occurrences(result, " FROM " \o args.table \o " ") # {}
            /\ InFixedOrder(BodyOf(result, args.table),
                   << generateWhereClause(o.where),
                      generateOrderByClause(o.order),
                      generateLimitOffsetClause(o.limit, o.offset),
                      generateFetchClause(o.include) >>)

\* the example of the specification: fields, where, order and limit given
C1_Witness ==
    /\ fn = "generateFindAllQuery"
    /\ args.table = "user"
    /\ args.options = Options(Strs(<<"id", "name">>),
                              JObj(<<Prop("active", JBool(TRUE))>>),
                              Strs(<<"-age">>), JNum(2), JUndefined,
                              JUndefined, JUndefined)
    /\ result = "SELECT id, name FROM user WHERE active = <bool>true ORDER BY age DESC LIMIT 2;"

\* C2: without a raw override the query of generateFindOneQuery contains the
\* directive "LIMIT 1" exactly once, whatever fields, where and include are.
C2_FindOneLimitOnce ==
    (fn = "generateFindOneQuery" /\ NoOverride(args.options)) =>
        Cardinality(Occurrences(result, "LIMIT 1")) = 1

C2_Witness ==
    /\ fn = "generateFindOneQuery"
    /\ NoOverride(args.options)
    /\ truthy(args.options.where) /\ Len(args.options.where.entries) > 0
    /\ truthy(args.options.include) /\ Len(args.options.include.items) > 0
    /\ Cardinality(Occurrences(result, "LIMIT 1")) = 1

\* C3: generateFindOneQuery always forces a LIMIT 1: with a raw override that
\* does not match limit\s+\d+ the query still contains "LIMIT 1"; only an
\* override that matches gets none.
C3_OverrideStillLimited ==
    (fn = "generateFindOneQuery" /\ HasOverride(args.options)) =>
        (includes(result, "LIMIT 1") <=> ~hasLimit(args.options.surrealql.str))

\* C4: with a raw override present (a blank one included) no generated WHERE,
\* ORDER BY, START/LIMIT or FETCH clause is appended: after "FROM <table> "
\* comes only the trimmed override and ";".
C4_OverrideAlone ==
    (IsSelect(fn) /\ HasOverride(args.options)) =>
        /\ Ch(result, Len(result)) = ";"
        /\ BodyOf(result, args.table) = trim(args.options.surrealql.str)

\* C5: the SELECT list of both generators is options.fields in order followed
\* by the include field paths, joined by ", ", and "*" exactly when both are
\* empty.
C5_SelectList ==
    IsSelect(fn) =>
        LET o == args.options
            explicit == IF o.fields.t = "array"
                        THEN [i \in 1..Len(o.fields.items) |-> o.fields.items[i].str]
                        ELSE <<>>
            included == IF o.include.t = "array"
                        THEN collectIncludeFields(o.include.items, "")
                        ELSE <<>>
            all == explicit \o included
        IN  /\ startsWith(result, "SELECT ")
            /\ Len(all) > 0 => FieldListOf(result) = join(all, ", ")
            /\ FieldListOf(result) = "*" <=> Len(all) = 0

\* a non-empty include without any field subset, and no explicit fields
C5_Witness ==
    /\ IsSelect(fn)
    /\ ~truthy(args.options.fields)
    /\ truthy(args.options.include)
    /\ Len(args.options.include.items) > 0
    /\ collectIncludeFields(args.options.include.items, "") = <<>>
    /\ FieldListOf(result) = "*"

\* C6: flattenIncludes returns one dot-path per node, in pre-order, each the
\* aliases (else relation names) from the root to the node joined by ".";
\* generateFetchClause is "FETCH " and these paths joined by ", ", or "".
C6_FlattenPreOrder ==
    /\ fn = "flattenIncludes" =>
          /\ Len(result) = Cardinality(Addresses(args.include))
          /\ \A a \in Addresses(args.include) :
                result[Rank(args.include, a)] = DotPath(args.include, a)
    /\ fn = "generateFetchClause" =>
          result = IF args.include = JUndefined \/ args.include = JArr(<<>>)
                   THEN ""
                   ELSE "FETCH " \o join(flattenIncludes(args.include.items, ""), ", ")

\* a root with a child and a sibling after it
C6_Witness ==
    /\ fn = "flattenIncludes"
    /\ {<<1>>, <<1, 1>>, <<2>>} = Addresses(args.include)
    /\ result[2] = DotPath(args.include, <<1, 1>>)
    /\ result[2] # result[3]

\* C7: collectIncludeFields emits, in the same pre-order, "<path>.<field>" for
\* every field of every node with a non-empty fields list; a node without
\* one adds nothing itself but its nested includes are still walked.
C7_CollectFields ==
    fn = "collectIncludeFields" =>
        LET f == args.include
        IN  /\ Len(result) = FieldCount(f, Addresses(f))
            /\ \A a \in Addresses(f) :
                  \A j \in 1..Len(FieldNames(NodeAt(f, a))) :
                      result[FieldsBefore(f, a) + j] =
                          DotPath(f, a) \o "." \o FieldNames(NodeAt(f, a))[j]

\* a root without a fields list whose child has one
C7_Witness ==
    /\ fn = "collectIncludeFields"
    /\ Len(args.include) = 1
    /\ args.include[1].fields = JUndefined
    /\ Len(ChildrenOf(args.include[1])) = 1
    /\ FieldNames(ChildrenOf(args.include[1])[1]) # <<>>
    /\ Len(result) = Len(FieldNames(ChildrenOf(args.include[1])[1]))

\* C8: generateWhereClause returns "" for an absent or empty map, else "WHERE "
\* and "<key> = " + casting(value) per entry in insertion order joined by
\* " AND "; the literal is what the caster returns for the value, also for a
\* string with an apostrophe.
C8_WhereUsesCaster ==
    fn = "generateWhereClause" =>
        LET ps == entriesOf(args.where)
        IN  result =
              IF Len(ps) = 0 THEN ""
              ELSE "WHERE " \o
                   join([i \in 1..Len(ps) |->
                           ps[i].key \o " = " \o casting(ps[i].value)], " AND ")

\* C9: generateOrderByClause emits per entry "<attr> DESC" for a leading "-"
\* (stripped) and "<attr> ASC" otherwise, joined by ", " after "ORDER BY ";
\* "" for an absent input or an empty list.
C9_OrderBy ==
    fn = "generateOrderByClause" =>
        LET o == args.order
            list == IF o.t = "array"
                    THEN [i \in 1..Len(o.items) |-> o.items[i].str]
                    ELSE IF o.t = "string" /\ o.str # "" THEN <<o.str>>
                    ELSE <<>>
            entry(e) == IF Ch(e, 1) = "-"
                        THEN SubSeq(e, 2, Len(e)) \o " DESC"
                        ELSE e \o " ASC"
        IN  /\ Len(list) = 0 <=> result = ""
            /\ Len(list) > 0 =>
                  result = "ORDER BY " \o
                           join([i \in 1..Len(list) |-> entry(list[i])], ", ")

C9_Witness ==
    /\ fn = "generateOrderByClause"
    /\ args.order = Strs(<<"-age", "name">>)
    /\ result = "ORDER BY age DESC, name ASC"

\* C10: generateLimitOffsetClause: only an offset gives "START <offset>", only
\* a limit "LIMIT <limit>", both "START <offset> LIMIT <limit>", neither "";
\* no blank at either end; 0 counts as present.
C10_LimitOffset ==
    fn = "generateLimitOffsetClause" =>
        LET hasL == args.limit # JUndefined
            hasO == args.offset # JUndefined
            l == IF hasL THEN ToString(args.limit.int) ELSE ""
            o == IF hasO THEN ToString(args.offset.int) ELSE ""
        IN  /\ (~hasL /\ ~hasO) => result = ""
            /\ (~hasL /\ hasO) => result = "START " \o o
            /\ (hasL /\ ~hasO) => result = "LIMIT " \o l
            /\ (hasL /\ hasO) => result = "START " \o o \o " LIMIT " \o l
            /\ result = trim(result)

\* limit 0 together with an offset
C10_Witness ==
    /\ fn = "generateLimitOffsetClause"
    /\ args.limit = JNum(0)
    /\ args.offset = JNum(1)
    /\ result = "START 1 LIMIT 0"

(***************************************************************************)
(* Observations on a casting input.                                        *)
(***************************************************************************)
\* s starts with "$" and holds no other "$"
ParameterShaped(s) ==
    /\ s # ""
    /\ Ch(s, 1) = "$"
    /\ \A i \in 2..Len(s) : Ch(s, i) # "$"

\* a string that is not parameter-, datetime- or record-reference-shaped
PlainString(v) ==
    /\ v.t = "string"
    /\ ~ParameterShaped(v.str)
    /\ ~isDateTime(v.str)
    /\ ~isRecord(v.str)

\* C11 as stated: for every plain string s that is not parameter-shaped, not
\* ISO-datetime-shaped and not record-reference-shaped, casting(s) is
\* "<string>" followed by s
C11_PlainStringAsStated ==
    (fn = "casting" /\ PlainString(args.opt))
        => result = "<string>" \o args.opt.str

\* C11: for every plain string s other than the empty string and "NULL" that
\* is not parameter-shaped, not ISO-datetime-shaped and not
\* record-reference-shaped, casting(s) is "<string>" followed by s, with no
\* further transformation; the empty string and "NULL" give "NONE"
C11_PlainString ==
    (fn = "casting" /\ PlainString(args.opt))
        => IF args.opt.str \in {"", "NULL"}
           THEN result = "NONE"
           ELSE result = "<string>" \o args.opt.str

C11_Witness ==
    /\ fn = "casting"
    /\ args.opt = JStr("O'B")
    /\ result = "<string>O'B"

\* the plain object a casting input hands to the object branch: the input
\* itself when it carries no tag, its data under the tag "object"
IsObjectInput(opt) ==
    \/ opt.t = "object" /\ ~hasKey(opt, "as")
    \/ /\ hasKey(opt, "as")
       /\ get(opt, "as") = JStr("object")
       /\ get(opt, "data").t = "object"

ObjectOf(opt) == IF hasKey(opt, "as") THEN get(opt, "data") ELSE opt

\* "{k1: c1, k2: c2, ...}", ci the cast of the i-th property value
ObjectLiteral(obj) ==
    "{" \o join([i \in 1..Len(obj.entries) |->
                    obj.entries[i].key \o ": " \o casting(obj.entries[i].value)],
                ", ") \o "}"

\* C12: casting a non-null plain object, with or without the tag "object",
\* returns "{k1: c1, k2: c2, ...}" with ci the cast of the i-th property
\* value, a null or undefined property value being rendered as NONE inside
\* the object literal
C12_ObjectLiteral ==
    (fn = "casting" /\ IsObjectInput(args.opt))
        => result = ObjectLiteral(ObjectOf(args.opt))

\* the casting inputs on which a statement inside the try block throws:
\* toLowerCase of a tag that is truthy but no string, and value.as of a null
\* or undefined property value of the object being rendered
TagThrows(opt) ==
    /\ hasKey(opt, "as")
    /\ get(opt, "data") # JUndefined
    /\ get(opt, "as").t \in {"number", "boolean", "array", "object"}
    /\ truthy(get(opt, "as"))

PropertyThrows(opt) ==
    /\ IsObjectInput(opt)
    /\ \E i \in 1..Len(ObjectOf(opt).entries) :
          ObjectOf(opt).entries[i].value \in {JNull, JUndefined}

\* C13: casting never throws: whenever a statement inside it fails (a tag
\* that is no string, a null or undefined property value of an object) the
\* call still returns, and what it returns is the sentinel "NONE"
C13_FailureIsNone ==
    (fn = "casting" /\ (TagThrows(args.opt) \/ PropertyThrows(args.opt)))
        => result = "NONE"

C13_Witness ==
    /\ fn = "casting"
    /\ args.opt = Tagged(JStr("invalid"), JNum(5))
    /\ result = "NONE"

C13_WitnessProperty ==
    /\ fn = "casting"
    /\ args.opt = ObjOf(<<JStr("two"), JNull>>)
    /\ result = "NONE"

\* the tags casting recognises, whatever their case
RecognizedTags ==
    { "array", "object", "bool", "bytes", "datetime", "decimal", "duration",
      "float", "int", "number", "record", "string", "uuid", "boolean" }

\* C14: casting with an explicit as tag that is not a recognized tag returns
\* "NONE": an unknown name, an empty string, null and undefined given as the
\* tag, together with non-empty data
C14_UnrecognizedTag ==
    (/\ fn = "casting"
     /\ hasKey(args.opt, "as")
     /\ truthy(get(args.opt, "data"))
     /\ \/ get(args.opt, "as").t \in {"null", "undefined"}
        \/ /\ get(args.opt, "as").t = "string"
           /\ toLowerCase(get(args.opt, "as").str) \notin RecognizedTags)
        => result = "NONE"

\* the part of C14 the code keeps: a non-empty name that is no recognized
\* tag returns "NONE"
C14_UnknownName ==
    (/\ fn = "casting"
     /\ hasKey(args.opt, "as")
     /\ get(args.opt, "as").t = "string"
     /\ get(args.opt, "as").str # ""
     /\ toLowerCase(get(args.opt, "as").str) \notin RecognizedTags)
        => result = "NONE"

\* the data of a casting input tagged "bool"
IsBoolInput(opt) ==
    /\ hasKey(opt, "as")
    /\ get(opt, "as").t = "string"
    /\ toLowerCase(get(opt, "as").str) = "bool"
    /\ get(opt, "data") # JUndefined

\* s holds a character that is no blank
HasNonBlank(s) == \E i \in 1..Len(s) : ~IsSpace(Ch(s, i))

\* the truthiness table of C15 as stated: [applies, value]
BoolTableAsStated(data) ==
    CASE data \in {JNum(0), JStr("0"), JBool(FALSE), JStr("false")} ->
            [applies |-> TRUE, value |-> FALSE]
      [] data \in {JNum(1), JStr("1"), JBool(TRUE), JStr("true")} ->
            [applies |-> TRUE, value |-> TRUE]
      [] data.t = "string" -> [applies |-> TRUE, value |-> data.str # ""]
      [] data.t = "array" -> [applies |-> TRUE, value |-> Len(data.items) > 0]
      [] data.t = "object" -> [applies |-> TRUE, value |-> TRUE]
      [] OTHER -> [applies |-> FALSE, value |-> FALSE]

\* the table with a string counted as empty when it holds blanks only
BoolTable(data) ==
    IF data.t = "string" /\ data.str \notin {"0", "1", "true", "false"}
    THEN [applies |-> TRUE, value |-> HasNonBlank(data.str)]
    ELSE BoolTableAsStated(data)

BoolLiteral(b) == "<bool>" \o (IF b THEN "true" ELSE "false")

NumericTag(opt) ==
    IF /\ hasKey(opt, "as")
       /\ get(opt, "as").t = "string"
       /\ get(opt, "data") # JUndefined
       /\ toLowerCase(get(opt, "as").str) \in {"int", "float", "number"}
    THEN toLowerCase(get(opt, "as").str)
    ELSE ""

\* what the tag parses the data to: int reads the numeric prefix of a string
\* and the numeric value of anything else, float the numeric prefix of the
\* text, number the numeric value
ParsedUnder(tag, data) ==
    CASE tag = "int" ->
            IF data.t = "string" THEN parseFloat(data) ELSE toNumber(data)
      [] tag = "float" -> parseFloat(data)
      [] OTHER -> toNumber(data)

\* C16: casting with an explicit int, float or number tag never emits NaN:
\* data that does not parse gives the tag followed by 0, and an int tag gives
\* the floor of the parsed value
C16_NeverNaN ==
    (fn = "casting" /\ NumericTag(args.opt) # "") =>
        LET tag == NumericTag(args.opt)
            parsed == ParsedUnder(tag, get(args.opt, "data"))
        IN  /\ ~includes(result, "NaN")
            /\ parsed.nan => result = "<" \o tag \o ">0"
            /\ (tag = "int" /\ ~parsed.nan) =>
                   result = "<int>" \o numberToString(floor(parsed))

C16_Witness ==
    /\ fn = "casting"
    /\ args.opt = Tagged(JStr("abc"), JStr("int"))
    /\ result = "<int>0"

C16_WitnessFloor ==
    /\ fn = "casting"
    /\ args.opt = Tagged(JStr("42.5"), JStr("int"))
    /\ result = "<int>42"

C16_WitnessTrue ==
    /\ fn = "casting"
    /\ args.opt = Tagged(JBool(TRUE), JStr("INT"))
    /\ result = "<int>1"

(***************************************************************************)
(* Observations on a CREATE, UPDATE or DELETE statement.                   *)
(***************************************************************************)
IsMutation(f) ==
    f \in {"generateCreateQuery", "generateUpdateQuery", "generateDeleteQuery"}

\* the keyword a generator opens its statement with
KeywordOf(f) ==
    CASE f = "generateCreateQuery" -> "CREATE"
      [] f = "generateUpdateQuery" -> "UPDATE"
      [] OTHER -> "DELETE"

\* the text between the keyword and the first blank or ";" after it
TargetOf(q, f) ==
    LET from == Len(KeywordOf(f)) + 2
        stops == {i \in from..Len(q) : Ch(q, i) \in {" ", ";"}}
    IN  SubSeq(q, from, IF stops = {} THEN Len(q) ELSE MinOf(stops) - 1)

IdGiven(o) == o.id.t = "string" /\ o.id.str # ""

\* C17: without a raw override, the target of the statement generated by
\* generateCreateQuery, generateUpdateQuery and generateDeleteQuery is the
\* table when no id is given and table, ":" and id when an id is given, by
\* the same rule in all three
C17_Target ==
    (IsMutation(fn) /\ NoOverride(args.options)) =>
        /\ startsWith(result, KeywordOf(fn) \o " ")
        /\ TargetOf(result, fn) =
               IF IdGiven(args.options)
               THEN args.table \o ":" \o args.options.id.str
               ELSE args.table

\* the part of C17 the code keeps: the rule holds in generateCreateQuery and
\* generateDeleteQuery
C17_TargetCreateDelete ==
    (/\ fn \in {"generateCreateQuery", "generateDeleteQuery"}
     /\ NoOverride(args.options)) =>
        /\ startsWith(result, KeywordOf(fn) \o " ")
        /\ TargetOf(result, fn) =
               IF IdGiven(args.options)
               THEN args.table \o ":" \o args.options.id.str
               ELSE args.table

\* C18: without a raw override, each of generateCreateQuery (CONTENT and SET
\* mode), generateUpdateQuery and generateDeleteQuery returns a single
\* command: ";" occurs exactly once in the returned string, as its last
\* character
C18_SingleTerminator ==
    (IsMutation(fn) /\ NoOverride(args.options)) =>
        Occurrences(result, ";") = {Len(result)}

\* the part of C18 the code keeps: every mode but the CONTENT mode of
\* generateCreateQuery ends in the only ";"
C18_SingleTerminatorElsewhere ==
    (/\ IsMutation(fn)
     /\ NoOverride(args.options)
     /\ ~(fn = "generateCreateQuery" /\ args.options.content # JBool(FALSE))) =>
        Occurrences(result, ";") = {Len(result)}

\* what follows the WHERE clause of a statement
AfterWhere(f) == IF f = "generateDeleteQuery" THEN ";" ELSE " RETURN "

\* where the body of a statement ends: after the target of a DELETE, after
\* the closing of CONTENT {...} or the last SET clause of an UPDATE
BodyEnd(q, f, o) ==
    IF f = "generateDeleteQuery"
    THEN Len("DELETE ") + Len(TargetOf(q, f))
    ELSE MinOf(Occurrences(q, " RETURN ") \cup Occurrences(q, " WHERE ")) - 1

\* the text up to the end of the body holds the body: the CONTENT or SET
\* clause of an UPDATE, nothing more than the target of a DELETE
HoldsBody(q, f, o) ==
    LET body == SubSeq(q, 1, BodyEnd(q, f, o))
    IN  IF f = "generateDeleteQuery" THEN body = "DELETE " \o TargetOf(q, f)
        ELSE IF o.content # JBool(FALSE)
        THEN includes(body, " CONTENT {") /\ Ch(body, Len(body)) = "}"
        ELSE includes(body, " SET ")

\* C19: in generateUpdateQuery and generateDeleteQuery the identifier and
\* the WHERE filter exclude each other: with options.id given no WHERE clause
\* is emitted even if options.where is non-empty, and with no id the WHERE
\* clause generated from options.where follows the body
C19_IdExcludesWhere ==
    (/\ fn \in {"generateUpdateQuery", "generateDeleteQuery"}
     /\ NoOverride(args.options)) =>
        LET whereClause == generateWhereClause(args.options.where)
        IN  IF IdGiven(args.options) \/ whereClause = ""
            THEN ~includes(result, "WHERE")
            ELSE /\ Occurrences(result, " " \o whereClause \o AfterWhere(fn))
                        = {BodyEnd(result, fn, args.options) + 1}
                 /\ HoldsBody(result, fn, args.options)
                 /\ Cardinality(Occurrences(result, "WHERE")) = 1

C19_Witness ==
    /\ fn = "generateUpdateQuery"
    /\ args.options.id = JStr("john")
    /\ args.options.where = JObj(<<Prop("name", JStr("O'B")), Prop("age", JNum(30))>>)
    /\ args.options.surrealql = JUndefined
    /\ ~includes(result, "WHERE")

C19_WitnessWhere ==
    /\ fn = "generateDeleteQuery"
    /\ args.options.id = JUndefined
    /\ result = "DELETE user WHERE name = <string>O''B AND age = <int>30;"

\* the body the claim expects: every value written as casting returns it
CastBody(o) ==
    IF o.content # JBool(FALSE)
    THEN "CONTENT {" \o
         join([i \in 1..Len(entriesOf(o.data)) |->
                  "\"" \o entriesOf(o.data)[i].key \o "\": "
                  \o casting(entriesOf(o.data)[i].value)], ", ") \o "}"
    ELSE "SET " \o
         join([i \in 1..Len(entriesOf(firstRecord(o.data))) |->
                  entriesOf(firstRecord(o.data))[i].key \o " = "
                  \o casting(entriesOf(firstRecord(o.data))[i].value)], ", ")

\* the statement holds that body, whole, between its target and what follows
HasCastBody(q, o) ==
    \E tail \in {" RETURN ", " WHERE ", "; RETURN "} :
        includes(q, " " \o CastBody(o) \o tail)

\* C20: every data value in the body of a generated CREATE or UPDATE
\* statement, in CONTENT mode and in SET mode alike, is the literal casting
\* returns for it; none is written by quote-escaping or JSON.stringify
C20_BodyIsCast ==
    (/\ fn \in {"generateCreateQuery", "generateUpdateQuery"}
     /\ NoOverride(args.options))
        => HasCastBody(result, args.options)

\* the part of C20 the code keeps: CREATE in both modes and UPDATE in
\* CONTENT mode write every value as casting returns it
C20_BodyIsCastElsewhere ==
    (/\ fn \in {"generateCreateQuery", "generateUpdateQuery"}
     /\ NoOverride(args.options)
     /\ ~(fn = "generateUpdateQuery" /\ args.options.content = JBool(FALSE)))
        => HasCastBody(result, args.options)

\* t is s without the blanks at its two ends
IsTrimOf(t, s) ==
    /\ t = "" \/ (~IsSpace(Ch(t, 1)) /\ ~IsSpace(Ch(t, Len(t))))
    /\ \E i \in 1..(Len(s) + 1) :
          /\ i + Len(t) - 1 <= Len(s)
          /\ SubSeq(s, i, i + Len(t) - 1) = t
          /\ \A k \in (1..(i - 1)) \cup ((i + Len(t))..Len(s)) : IsSpace(Ch(s, k))

\* C21: given a non-empty raw override, generateCreateQuery,
\* generateUpdateQuery and generateDeleteQuery return exactly the override
\* text without its leading and trailing blanks, whatever table, id, data,
\* where and return are
C21_OverrideTrimmed ==
    (IsMutation(fn) /\ HasOverride(args.options))
        => IsTrimOf(result, args.options.surrealql.str)

C21_Witness ==
    /\ fn = "generateUpdateQuery"
    /\ args.options.surrealql = JStr(" INFO FOR TABLE user; ")
    /\ args.options.id = JStr("john")
    /\ args.options.content = JBool(FALSE)
    /\ args.options.return = JStr("BEFORE")
    /\ result = "INFO FOR TABLE user;"

(***************************************************************************)
(* Observations on the timestamp fields of a table.                        *)
(***************************************************************************)
\* whether a timestamp field was asked for: all under true, by its own flag
\* under an object, none otherwise
AskedFor(timestamps, name) ==
    \/ timestamps = JBool(TRUE)
    \/ timestamps.t = "object" /\ get(timestamps, name) = JBool(TRUE)

\* C25: additionalFields emits exactly the timestamp fields asked for, in
\* the order createdAt, updatedAt, deletedAt: all three under true, under an
\* object a field if and only if its own flag is true, none under undefined
\* or false
C25_FieldsAskedFor ==
    fn = "additionalFields" =>
        result = (IF AskedFor(args.timestamps, "createdAt")
                  THEN <<createdAtField(args.table)>> ELSE <<>>)
                 \o (IF AskedFor(args.timestamps, "updatedAt")
                     THEN <<updatedAtField(args.table)>> ELSE <<>>)
                 \o (IF AskedFor(args.timestamps, "deletedAt")
                     THEN <<deletedAtField(args.table)>> ELSE <<>>)

\* the part of C25 the code keeps: createdAt and updatedAt follow their own
\* flags, and under true all three fields are emitted in order
C25_CreatedUpdated ==
    (fn = "additionalFields" /\ args.timestamps # JUndefined) =>
        /\ (\E i \in 1..Len(result) : result[i] = createdAtField(args.table))
              <=> AskedFor(args.timestamps, "createdAt")
        /\ (\E i \in 1..Len(result) : result[i] = updatedAtField(args.table))
              <=> AskedFor(args.timestamps, "updatedAt")

(***************************************************************************)
(* Observations on a projected schema.                                     *)
(***************************************************************************)
\* the record types a declared attribute type leads to, directly or as the
\* elements of an array
RelatedRecords(T) ==
    {m \in T : m.k = "object"}
    \cup UNION {{u \in m.elem : u.k = "object"} : m \in {a \in T : a.k = "array"}}

IsArrayRelation(T) == \E m \in T : m.k = "array"

\* the reference variant of a relation: its primitives, array-ness kept
ReferenceVariant(T) ==
    {m \in T : m.k = "primitive"}
    \cup { ArrT({u \in m.elem : u.k = "primitive"}) :
             m \in {a \in T : a.k = "array" /\ \E u \in a.elem : u.k = "primitive"} }

\* the nodes of an include list that name attribute K
NodesFor(include, K) == {i \in 1..Len(include) : include[i].model = K}

\* the include list below the first node naming K, empty when it has none
NestedOf(include, K) ==
    LET n == include[MinOf(NodesFor(include, K))]
    IN  IF n.include.t = "array" THEN n.include.items ELSE <<>>

\* the derived schema the projection is to give for record type rec
RECURSIVE Projection(_, _)
Projection(rec, include) ==
    ObjT([i \in 1..Len(rec.attrs) |->
        LET K == rec.attrs[i].name
            TK == rec.attrs[i].type
            shapes == {Projection(r, NestedOf(include, K)) : r \in RelatedRecords(TK)}
        IN  Attr(K,
              IF RelatedRecords(TK) = {} THEN TK
              ELSE IF NodesFor(include, K) = {} THEN ReferenceVariant(TK)
              ELSE IF IsArrayRelation(TK) THEN {ArrT(shapes)}
              ELSE shapes)])

IncludeOf(o) == IF o.include.t = "array" THEN o.include.items ELSE <<>>

\* some related record of a named relation has relations of its own
RECURSIVE NamesDeepRelation(_, _)
NamesDeepRelation(rec, include) ==
    \E i \in 1..Len(rec.attrs) :
        /\ NodesFor(include, rec.attrs[i].name) # {}
        /\ \E r \in RelatedRecords(rec.attrs[i].type) :
              \/ RelationKeys(r) # {}
              \/ NamesDeepRelation(r, NestedOf(include, rec.attrs[i].name))

HasArrayRelation(rec) ==
    \E i \in 1..Len(rec.attrs) :
        RelatedRecords(rec.attrs[i].type) # {} /\ IsArrayRelation(rec.attrs[i].type)

\* C26: the projection of a schema under an include tree resolves a relation
\* attribute not named in the include list at its level to its reference
\* variant and a named one to the related record's shape, array-ness kept;
\* when the naming node carries no nested include list every relation
\* attribute of the related record collapses to its reference variant
C26_Projection ==
    fn = "WithInclude"
        => result = {Projection(args.schema, IncludeOf(args.options))}

\* the part of C26 the code keeps: the projection is as claimed for a schema
\* without array relations when no named relation leads to a record with
\* relations of its own
C26_FlatProjection ==
    (/\ fn = "WithInclude"
     /\ ~HasArrayRelation(args.schema)
     /\ ~NamesDeepRelation(args.schema, IncludeOf(args.options)))
        => result = {Projection(args.schema, IncludeOf(args.options))}

(***************************************************************************)
(* Observations of the calls on a Surreality instance.                     *)
(***************************************************************************)
\* { error: { status: false, message: <a string> } }
IsTaggedError(v) ==
    /\ v.t = "object"
    /\ hasKey(v, "error")
    /\ get(v, "error").t = "object"
    /\ get(get(v, "error"), "status") = JBool(FALSE)
    /\ get(get(v, "error"), "message").t = "string"

MessageOf(v) == get(get(v, "error"), "message").str

\* the words by which an operation's failure message names it
OperationWords(op) ==
    IF op = "defineTable" THEN "Failed to define table"
    ELSE IF op = "defineField" THEN "Failed to define field"
    ELSE "Failed to execute " \o op \o " on table"

Operations ==
    {"findAll", "findOne", "create", "update", "delete", "defineTable",
     "defineField"}

Ended(c) == calls[c].pc = "done"

\* the call threw, or a client call it awaited was rejected
Failed(c) == Ended(c) /\ ~calls[c].outcome.ok

Succeeded(c) == Ended(c) /\ calls[c].outcome.ok

\* C22: a call of findAll, findOne, create, update, delete, defineTable or
\* defineField whose client call was rejected, or whose query generation
\* threw, ends by returning the tagged value { error: { status: false,
\* message } }, and the message names the operation that failed.
C22_FailureIsTagged ==
    \A c \in Callers :
        Failed(c) =>
            /\ calls[c].op \in Operations
            /\ IsTaggedError(calls[c].ret)
            /\ startsWith(MessageOf(calls[c].ret), OperationWords(calls[c].op))

\* a create call a client rejection ended, next to a defineTable call whose
\* statement generation threw
C22_Witness ==
    /\ Failed("first")
    /\ calls["first"].op = "create"
    /\ calls["first"].sent # <<>>
    /\ calls["first"].ret =
           ErrorResponse("Failed to execute create on table user: Parse error")
    /\ Failed("second")
    /\ calls["second"].op = "defineTable"
    /\ calls["second"].a.options.timestamps = JNull
    /\ thisSurreal = Client
    /\ calls["second"].sent = <<>>

FirstRecord(response) ==
    IF /\ response.t = "array"
       /\ Len(response.items) > 0
       /\ response.items[1].t = "array"
       /\ Len(response.items[1].items) > 0
    THEN response.items[1].items[1]
    ELSE JNull

\* C24: a findOne call without the raw flag that the client answered
\* returns the first record of the first statement's result when there is
\* one and null for every other response (an empty result, a response of
\* another shape); what it returns is never an array.
C24_FirstRecordOrNull ==
    \A c \in Callers :
        (Succeeded(c) /\ calls[c].op = "findOne" /\ ~truthy(calls[c].a.raw))
            => /\ calls[c].ret = FirstRecord(calls[c].outcome.value)
               /\ calls[c].ret.t \in {"object", "null"}

\* findOne answered with two records returns the first; answered with an
\* object where a list was expected it returns null
C24_Witness ==
    /\ Succeeded("first")
    /\ calls["first"].op = "findOne"
    /\ calls["first"].a.raw = JUndefined
    /\ calls["first"].outcome.value =
           JArr(<<JArr(<<Answer(calls["first"].sent[1]), OtherAnswer>>)>>)
    /\ calls["first"].ret = Answer(calls["first"].sent[1])
    /\ Succeeded("second")
    /\ calls["second"].op = "findOne"
    /\ calls["second"].a.raw = JUndefined
    /\ calls["second"].outcome.value = JArr(<<Answer(calls["second"].sent[1])>>)
    /\ calls["second"].ret = JNull

\* the statement an operation generates from the instance's table name and
\* the call's own arguments
OwnStatement(op, a) ==
    CASE op = "findAll" -> generateFindAllQuery(toStr(thisTable), a.options)
      [] op = "findOne" -> generateFindOneQuery(toStr(thisTable), a.options)
      [] op = "create" -> generateCreateQuery(toStr(thisTable), a.options)
      [] op = "update" -> generateUpdateQuery(toStr(thisTable), a.options)
      [] op = "delete" -> generateDeleteQuery(toStr(thisTable), a.options)
      [] op = "defineField" ->
             generateFieldQuery(toStr(thisTable), a.name, a.type, a.options)
      [] OTHER -> generateTableQuery(toStr(thisTable), a.base, a.options)

\* the statements the records of a value say they answer
RECURSIVE AnsweredIn(_)
AnsweredIn(v) ==
    IF v.t = "array"
    THEN UNION {AnsweredIn(v.items[i]) : i \in 1..Len(v.items)}
    ELSE IF v.t = "object"
    THEN (IF hasKey(v, "statement") THEN {get(v, "statement").str} ELSE {})
         \cup UNION {AnsweredIn(v.entries[i].value) : i \in 1..Len(v.entries)}
    ELSE {}

DataOperations == {"findAll", "findOne", "create", "update", "delete"}

\* what a data operation makes of a response, by its documented unwrapping
Unwrapped(op, raw, response) ==
    IF truthy(raw) THEN response
    ELSE IF op = "findOne" THEN FirstRecord(response)
    ELSE IF op = "findAll"
    THEN (IF response.t = "array" /\ Len(response.items) > 0
             /\ response.items[1].t = "array"
          THEN response.items[1] ELSE response)
    ELSE IF response.t = "array" /\ Len(response.items) > 0
            /\ hasKey(response.items[1], "result")
    THEN get(response.items[1], "result")
    ELSE response

\* a call of a data operation in progress or over kept to itself: the one
\* statement it handed to the client is the one its own options generate,
\* and what it returned is the unwrapped answer to that statement
KeptApart(c) ==
    LET call == calls[c]
    IN  /\ (call.op \in DataOperations /\ call.sent # <<>>)
               => call.sent = <<OwnStatement(call.op, call.a)>>
        /\ (call.op \in DataOperations /\ Succeeded(c))
               => /\ AnsweredIn(call.ret) \subseteq {call.sent[1]}
                  /\ call.ret = Unwrapped(call.op, call.a.raw,
                                          call.outcome.value)
                  /\ AnsweredIn(call.outcome.value) = {call.sent[1]}
                         \/ AnsweredIn(call.outcome.value) = {}

\* C27: under every interleaving of the segments of two calls on one
\* instance, each call hands to the client exactly the statement generated
\* from its own options and returns the unwrapped answer to that statement,
\* and no step of any call changes a field of the instance.
C27_NoInterference ==
    [][/\ thisSurreal' = thisSurreal
       /\ thisTable' = thisTable
       /\ \A c \in Callers : KeptApart(c)']_vars

\* two calls of different operations were in flight together and the one
\* that started last was answered and returned first
C27_Witness ==
    /\ calls["first"].op = "findAll"
    /\ calls["first"].pc = "awaiting"
    /\ calls["second"].op = "create"
    /\ Succeeded("second")
    /\ calls["second"].sent # calls["first"].sent
    /\ calls["second"].ret = JArr(<<Answer(calls["second"].sent[1])>>)

RECURSIVE AllDefineField(_)
AllDefineField(statements) ==
    \/ statements = <<>>
    \/ /\ startsWith(Head(statements), "DEFINE FIELD ")
       /\ AllDefineField(Tail(statements))

\* the statements of a defineTable call, in the order it is to send them:
\* DEFINE TABLE, then the DEFINE FIELD list additionalFields gives
Planned(a) ==
    <<generateTableQuery(toStr(thisTable), a.base, a.options)>>
    \o additionalFields(toStr(thisTable), a.options.timestamps)

\* a defineTable call sends in order and one at a time, and stops at the
\* first failure
InOrder(c) ==
    LET call == calls[c]
        n == Len(call.sent)
    IN  (call.op = "defineTable" /\ n > 0) =>
            /\ call.sent = SubSeq(Planned(call.a), 1, n)
            /\ startsWith(call.sent[1], "DEFINE TABLE ")
            /\ AllDefineField(Tail(call.sent))
            /\ call.settled = (IF call.pc = "awaiting" THEN n - 1 ELSE n)
            /\ Succeeded(c) => (call.sent = Planned(call.a)
                                /\ call.ret = JUndefined)
            /\ Failed(c) => IsTaggedError(call.ret)

\* C30: defineTable hands the DEFINE TABLE statement to the client first
\* and then the timestamp DEFINE FIELD statements in list order, each only
\* once the client has settled the one before; once a statement is
\* rejected the call sends nothing more and returns the tagged error value.
C30_InOrderUntilFailure ==
    [][\A c \in Callers :
           /\ InOrder(c)'
           /\ (calls[c].op = "defineTable" /\ calls'[c].sent # calls[c].sent)
                  => /\ calls[c].pc = "settled"
                     /\ calls[c].outcome.ok
                     /\ calls[c].settled = Len(calls[c].sent)
                     /\ Len(calls'[c].sent) = Len(calls[c].sent) + 1]_vars

\* a defineTable call that was to send four statements ended with the
\* tagged error after the third was rejected
C30_Witness ==
    /\ calls["first"].op = "defineTable"
    /\ Failed("first")
    /\ Len(Planned(calls["first"].a)) = 4
    /\ Len(calls["first"].sent) = 3
    /\ calls["first"].sent[1] = "DEFINE TABLE user SCHEMAFULL"
    /\ calls["first"].ret =
           ErrorResponse("Failed to define table with name user: Parse error")

(***************************************************************************)
(* Observations of the calls on a Manager.                                 *)
(***************************************************************************)
\* a step in which caller c's call asks something of the client
Contacts(c) ==
    /\ managerCalls[c].pc = "idle"
    /\ managerCalls'[c].request # <<>>

\* a step in which caller c makes a call of a method that needs a connection
Calls(c) ==
    /\ managerCalls[c].pc = "idle"
    /\ managerCalls'[c].op \in
           {"query", "getInfo", "use", "defineUser", "defineParam",
            "defineNamespace", "defineDatabase"}

endsWith(s, p) ==
    Len(s) >= Len(p) /\ SubSeq(s, Len(s) - Len(p) + 1, Len(s)) = p

\* a step in which caller c's call goes on after its awaited client call
GoesOn(c, op) ==
    /\ managerCalls[c].pc = "settled"
    /\ managerCalls[c].op = op
    /\ managerCalls'[c].pc = "done"

\* C28: a call of query, getInfo, use or a define method asks something of
\* the client only when the handle is not null, and on the handle; with a
\* null handle it ends at once with the tagged error "Not connected to
\* SurrealDB" and the client is not contacted.  When disconnect goes on
\* after a fulfilled close the handle is null; when connect goes on after a
\* rejected connection the handle is what it was.
C28_HandleDiscipline ==
    [][\A c \in Callers :
           /\ Calls(c) =>
                  IF managerSurreal = JNull
                  THEN /\ managerCalls'[c].pc = "done"
                       /\ managerCalls'[c].request = <<>>
                       /\ IsTaggedError(managerCalls'[c].ret)
                       /\ endsWith(MessageOf(managerCalls'[c].ret),
                                   ": Not connected to SurrealDB")
                  ELSE managerCalls'[c].request # <<>>
                           => managerCalls'[c].request.on = managerSurreal
           /\ (Contacts(c) /\ managerCalls'[c].op # "connect")
                  => managerSurreal # JNull
           /\ (GoesOn(c, "disconnect") /\ managerCalls[c].outcome.ok)
                  => managerSurreal' = JNull
           /\ (GoesOn(c, "connect") /\ ~managerCalls[c].outcome.ok)
                  => /\ managerSurreal' = managerSurreal
                     /\ IsTaggedError(managerCalls'[c].ret)
           /\ (managerSurreal' # managerSurreal)
                  => \E d \in Callers :
                         \/ GoesOn(d, "connect") /\ managerCalls[d].outcome.ok
                         \/ GoesOn(d, "disconnect") /\ managerCalls[d].outcome.ok]_vars

\* after a connect, a disconnect and a second connect that failed, the
\* handle is null and a query has ended with the tagged error
C28_Witness ==
    /\ managerClients = 2
    /\ managerSurreal = JNull
    /\ managerCalls["first"].op = "connect"
    /\ managerCalls["first"].pc = "done"
    /\ ~managerCalls["first"].outcome.ok
    /\ managerCalls["first"].locals.db = Surreal(2)
    /\ managerCalls["second"].op = "query"
    /\ managerCalls["second"].ret =
           ErrorResponse("Failed to execute query: Not connected to SurrealDB")

\* C29: use stores its namespace and database (the given value, or the
\* configured one when the parameter was left out) only when it goes on
\* after a fulfilled client use call; a use call on a manager that is not
\* connected, or whose client call is rejected, returns the tagged error,
\* and no other step changes the configuration.
C29_ConfigOnSuccess ==
    [][\A c \in Callers :
           /\ (managerCalls[c].pc = "idle" /\ managerCalls'[c].op = "use")
                  => /\ managerConfig' = managerConfig
                     /\ managerSurreal = JNull
                            => /\ managerCalls'[c].pc = "done"
                               /\ IsTaggedError(managerCalls'[c].ret)
                     /\ managerCalls'[c].pc = "awaiting"
                            => /\ managerCalls'[c].request.namespace =
                                      (IF managerCalls'[c].a.namespace = JUndefined
                                       THEN managerConfig.namespace
                                       ELSE managerCalls'[c].a.namespace)
                               /\ managerCalls'[c].request.database =
                                      (IF managerCalls'[c].a.database = JUndefined
                                       THEN managerConfig.database
                                       ELSE managerCalls'[c].a.database)
           /\ (GoesOn(c, "use") /\ managerCalls[c].outcome.ok)
                  => /\ managerConfig'.namespace = managerCalls[c].request.namespace
                     /\ managerConfig'.database = managerCalls[c].request.database
                     /\ managerConfig'.url = managerConfig.url
                     /\ managerCalls'[c].ret = JUndefined
           /\ (GoesOn(c, "use") /\ ~managerCalls[c].outcome.ok)
                  => /\ managerConfig' = managerConfig
                     /\ IsTaggedError(managerCalls'[c].ret)
           /\ (managerConfig' # managerConfig)
                  => \E d \in Callers :
                         GoesOn(d, "use") /\ managerCalls[d].outcome.ok]_vars

\* one use call stored a namespace and kept the database; a second one,
\* rejected by the client, returned the tagged error and stored nothing
C29_Witness ==
    /\ managerConfig.namespace = JStr("app")
    /\ managerConfig.database = JStr("surreality")
    /\ managerCalls["first"].op = "use"
    /\ managerCalls["first"].pc = "done"
    /\ managerCalls["first"].a.database = JStr("main")
    /\ managerCalls["first"].ret =
           ErrorResponse("Scope update failed: Connection lost")

====
